---- MODULE Spec2Model ----
(***************************************************************************)
(* scope-timer: the per-thread timing tree driven by ScopeTimer.begin /    *)
(* end / profile / reset (scope_timer/core.py) over timer nodes            *)
(* (scope_timer/node.py) and time records (scope_timer/record.py).         *)
(*                                                                         *)
(* Python objects live in a heap (nodes) and are referred to by id; the    *)
(* attributes of the threading.local object are kept per thread (local).   *)
(* core.py carries a node class of its own (core.py:13-63) with the same   *)
(* protocol as node.py's TimerNode: child_nodes.get + create_and_add_child *)
(* is get_or_create_branch, top is is_root, time_records[ncall] is         *)
(* records[ncall]. The facade is modelled over TimerNode, the node type    *)
(* the tests and the statistics use.                                       *)
(*                                                                         *)
(* hist, solo, last and the fields of a frame after name are history       *)
(* variables: they record which calls were made, never what the code       *)
(* computed from them.                                                     *)
(*                                                                         *)
(* The statistics (node.py, stats.py) and the display property (infer.py)  *)
(* compute with floats; here a float is an exact quotient of integers.     *)
(* The enable flag, _begin / _end, _preprocess, _create_rich_group and the *)
(* summarize that runs the stats pass first belong to the facade the tests *)
(* drive; core.py does not have them.                                      *)
(***************************************************************************)
EXTENDS Integers, Sequences, FiniteSets, Bags, TLC

VARIABLES nodes, local, clock, frames, pending, last, hist, solo, enabled, infer,
          callables, open_nodes, results, prog

vars == <<nodes, local, clock, frames, pending, last, hist, solo, enabled, infer,
          callables, open_nodes, results, prog>>

\* ------------------------------------------------------------------ bounds
\* records alive in the heap: one thread, one thread with profile blocks,
\* several threads
MaxRecords == 3
MaxRecordsProfile == 2
MaxRecordsMT == 2
MaxClock == 1
MaxFrames == 1
MaxRecordsToggle == 1
MaxRecordsStats == 2
MaxRecordsFunc == 2
MaxRecordsExport == 2
MaxRecordsProgram == 2
MaxDepth == 2
\* the records of a node timed without the facade, the nodes of a tree built
\* without it
MaxRecordsNode == 3
MaxNodes == 4
\* worst times m * 10^e with m in 0..MaxMantissa
MaxMantissa == 12

MainThread == "t1"
Threads == {"t1", "t2"}
Names == {"A", "B"}

\* ------------------------------------------------------- values and helpers
None == 0
NoEnd == -1
\* a node that reset discarded
Gone == None - 1

Max(a, b) == IF a >= b THEN a ELSE b
Min(a, b) == IF a <= b THEN a ELSE b

\* time.perf_counter(): monotonic, two reads may return the same value
perf_counter(c) == {c, Min(c + 1, MaxClock)}

\* An insertion-ordered dict as a sequence of <<key, value>> pairs
DictKeys(d) == {d[i][1] : i \in DOMAIN d}
DictValues(d) == {d[i][2] : i \in DOMAIN d}
DictGet(d, k) ==
    IF k \in DictKeys(d)
    THEN LET i == CHOOSE j \in DOMAIN d : d[j][1] = k IN d[i][2]
    ELSE None
DictSet(d, k, v) ==
    IF k \in DictKeys(d)
    THEN [i \in DOMAIN d |-> IF d[i][1] = k THEN <<k, v>> ELSE d[i]]
    ELSE Append(d, <<k, v>>)

\* A new object never has the identity of a live one
NewId(h) ==
    CHOOSE i \in 1..(Cardinality(DOMAIN h) + 1) :
        i \notin DOMAIN h /\ \A j \in 1..(i - 1) : j \in DOMAIN h

\* ------------------------------------------------------------- record.py
TimerRecord(begin) == [begin |-> begin, end |-> NoEnd]

\* mutant: no test for a missing end
ElapsedNoGuard(r) == r.end - r.begin

elapsed(r) == IF r.end = NoEnd THEN 0 ELSE r.end - r.begin

\* --------------------------------------------------------------- node.py
TimerNode(name, level, parent) ==
    [name |-> name, records |-> <<>>, level |-> level, branch_nodes |-> <<>>,
     parent |-> parent, ncall |-> 0, is_root |-> (level = 0),
     stats |-> <<>>, preprocessed |-> FALSE]

begin_record(node, now) ==
    [node EXCEPT !.records = Append(@, TimerRecord(now))]

\* mutant: the record is closed and counted, the stamp of the pass is kept
EndRecordKeepsStamp(node, now) ==
    [node EXCEPT !.records[node.ncall + 1].end = now, !.ncall = @ + 1]

\* mutant: the record is closed and not counted
EndRecordNoCount(node, now) ==
    [node EXCEPT !.records[node.ncall + 1].end = now, !.preprocessed = FALSE]

end_record(node, now) ==
    [node EXCEPT !.records[node.ncall + 1].end = now,
                 !.ncall = @ + 1,
                 !.preprocessed = FALSE]

\* mutant: the count goes up whether or not there is a record to close
EndRecordUnchecked(node, now) ==
    [node |-> [node EXCEPT !.ncall = @ + 1, !.preprocessed = FALSE],
     raised |-> FALSE]

\* node.end_record() as a caller sees it: self.records[self.ncall] raises
\* IndexError, before anything is assigned, when no record is open
TimerNode_end_record(node, now) ==
    IF node.ncall + 1 \in DOMAIN node.records
    THEN [node |-> end_record(node, now), raised |-> FALSE]
    ELSE [node |-> node, raised |-> TRUE]

has_open_record(node) == node.ncall < Len(node.records)

\* mutant: a branch is created on every call, found or not
AlwaysCreateBranch(h, self, name) ==
    LET new == NewId(h) IN
    [heap |-> [i \in DOMAIN h \cup {new} |->
                 IF i = new THEN TimerNode(name, h[self].level + 1, self)
                 ELSE IF i = self
                      THEN [h[self] EXCEPT !.branch_nodes = DictSet(@, name, new)]
                      ELSE h[i]],
     branch |-> new]

\* mutant: a new branch is given the level of the node it is created under
BranchAtSameLevel(h, self, name) ==
    LET branch == DictGet(h[self].branch_nodes, name) IN
    IF branch = None
    THEN LET new == NewId(h) IN
         [heap |-> [i \in DOMAIN h \cup {new} |->
                      IF i = new THEN TimerNode(name, h[self].level, self)
                      ELSE IF i = self
                           THEN [h[self] EXCEPT !.branch_nodes = DictSet(@, name, new)]
                           ELSE h[i]],
          branch |-> new]
    ELSE [heap |-> h, branch |-> branch]

get_or_create_branch(h, self, name) ==
    LET branch == DictGet(h[self].branch_nodes, name) IN
    IF branch = None
    THEN LET new == NewId(h) IN
         [heap |-> [i \in DOMAIN h \cup {new} |->
                      IF i = new THEN TimerNode(name, h[self].level + 1, self)
                      ELSE IF i = self
                           THEN [h[self] EXCEPT !.branch_nodes = DictSet(@, name, new)]
                           ELSE h[i]],
          branch |-> new]
    ELSE [heap |-> h, branch |-> branch]

\* a float that is a quotient of integers, kept exact and in lowest terms
Abs(a) == IF a < 0 THEN 0 - a ELSE a

RECURSIVE GCD(_, _)
GCD(a, b) == IF b = 0 THEN a ELSE GCD(b, a % b)

Ratio(n, d) == LET g == GCD(Abs(n), d) IN [num |-> n \div g, den |-> d \div g]

RatAdd(a, b) == Ratio(a.num * b.den + b.num * a.den, a.den * b.den)
RatSub(a, b) == Ratio(a.num * b.den - b.num * a.den, a.den * b.den)
RatMul(a, b) == Ratio(a.num * b.num, a.den * b.den)
RatDiv(a, k) == Ratio(a.num, a.den * k)

\* sum(...), min(...), max(...) over a sequence
RECURSIVE SeqSum(_)
SeqSum(q) == IF q = <<>> THEN 0 ELSE q[1] + SeqSum(Tail(q))

RECURSIVE SeqMin(_)
SeqMin(q) == IF Len(q) = 1 THEN q[1] ELSE Min(q[1], SeqMin(Tail(q)))

RECURSIVE SeqMax(_)
SeqMax(q) == IF Len(q) = 1 THEN q[1] ELSE Max(q[1], SeqMax(Tail(q)))

RECURSIVE RatSum(_)
RatSum(q) == IF q = <<>> THEN Ratio(0, 1) ELSE RatAdd(q[1], RatSum(Tail(q)))

\* [r.elapsed for r in records[:k]]
Elapsed(records, k) == [i \in 1..Min(k, Len(records)) |-> elapsed(records[i])]

_get_total_time(node) ==
    IF node.ncall = 0 THEN 0 ELSE SeqSum(Elapsed(node.records, node.ncall))

\* mutant: the minimum is taken over every record, the open one included
MinOverAllRecords(node) ==
    IF node.ncall = 0 THEN 0 ELSE SeqMin(Elapsed(node.records, Len(node.records)))

_get_min_time(node) ==
    IF node.ncall = 0 THEN 0 ELSE SeqMin(Elapsed(node.records, node.ncall))

_get_max_time(node) ==
    IF node.ncall = 0 THEN 0 ELSE SeqMax(Elapsed(node.records, node.ncall))

_get_avg_time(node) ==
    IF node.ncall = 0 THEN Ratio(0, 1)
    ELSE Ratio(_get_total_time(node), node.ncall)

\* mutant: the sample variance, divided by ncall - 1
VarTimeSample(node) ==
    IF node.ncall < 2 THEN Ratio(0, 1)
    ELSE LET avg == _get_avg_time(node)
             e == Elapsed(node.records, node.ncall)
             d == [i \in DOMAIN e |-> RatSub(Ratio(e[i], 1), avg)]
         IN  RatDiv(RatSum([i \in DOMAIN e |-> RatMul(d[i], d[i])]), node.ncall - 1)

_get_var_time(node) ==
    IF node.ncall < 2 THEN Ratio(0, 1)
    ELSE LET avg == _get_avg_time(node)
             e == Elapsed(node.records, node.ncall)
             d == [i \in DOMAIN e |-> RatSub(Ratio(e[i], 1), avg)]
         IN  RatDiv(RatSum([i \in DOMAIN e |-> RatMul(d[i], d[i])]), node.ncall)

\* stats.py
TimerStats(total, min_, max_, avg, var_) ==
    [total |-> total, min_ |-> min_, max_ |-> max_, avg |-> avg, var_ |-> var_]

\* stats = None
NoStats == <<>>

total_time(node) ==
    IF node.stats = NoStats THEN _get_total_time(node) ELSE node.stats.total

min_time(node) ==
    IF node.stats = NoStats THEN _get_min_time(node) ELSE node.stats.min_

max_time(node) ==
    IF node.stats = NoStats THEN _get_max_time(node) ELSE node.stats.max_

avg_time(node) ==
    IF node.stats = NoStats THEN _get_avg_time(node) ELSE node.stats.avg

var_time(node) ==
    IF node.stats = NoStats THEN _get_var_time(node) ELSE node.stats.var_

\* mutant: the total of the pass is added to the total the node reports
BuildStatsAccumulates(node) ==
    [node EXCEPT !.stats = TimerStats(total_time(node) + _get_total_time(node),
                                      _get_min_time(node), _get_max_time(node),
                                      _get_avg_time(node), _get_var_time(node))]

_build_stats(node) ==
    [node EXCEPT !.stats = TimerStats(_get_total_time(node), _get_min_time(node),
                                      _get_max_time(node), _get_avg_time(node),
                                      _get_var_time(node))]

\* mutant: the pass does not descend into the branches
BuildStatsNoRecursion(h, self) ==
    [h EXCEPT ![self] = [_build_stats(@) EXCEPT !.preprocessed = TRUE]]

RECURSIVE build_stats_recursive(_, _)
RECURSIVE BuildStatsBranches(_, _, _)
\* for branch_node in branches[i:]: branch_node.build_stats_recursive()
BuildStatsBranches(h, branches, i) ==
    IF i > Len(branches) THEN h
    ELSE BuildStatsBranches(build_stats_recursive(h, branches[i][2]), branches, i + 1)

build_stats_recursive(h, self) ==
    LET built == [h EXCEPT ![self] = _build_stats(@)]
        done == BuildStatsBranches(built, h[self].branch_nodes, 1)
    IN  [done EXCEPT ![self].preprocessed = TRUE]

\* mutant: the branches are not searched
OpenNodesSelfOnly(h, self) ==
    IF has_open_record(h[self]) THEN <<self>> ELSE <<>>

RECURSIVE get_open_nodes(_, _)
RECURSIVE OpenNodesBranches(_, _, _)
\* for branch_node in branches[i:]: open_nodes.extend(branch_node.get_open_nodes())
OpenNodesBranches(h, branches, i) ==
    IF i > Len(branches) THEN <<>>
    ELSE get_open_nodes(h, branches[i][2]) \o OpenNodesBranches(h, branches, i + 1)

\* mutant: the branches are visited before the node itself
OpenNodesBranchesFirst(h, self) ==
    OpenNodesBranches(h, h[self].branch_nodes, 1)
    \o (IF has_open_record(h[self]) THEN <<self>> ELSE <<>>)

get_open_nodes(h, self) ==
    (IF has_open_record(h[self]) THEN <<self>> ELSE <<>>)
    \o OpenNodesBranches(h, h[self].branch_nodes, 1)

\* get_open_nodes has not been called
NoReport == [self |-> None, list |-> <<>>]

\* ------------------------------------------------------- tree navigation
RECURSIVE Subtree(_, _)
Subtree(h, n) ==
    {n} \cup UNION {Subtree(h, c) : c \in DictValues(h[n].branch_nodes)}

\* the nodes a root mapping owns
Owned(h, top_nodes) == UNION {Subtree(h, r) : r \in DictValues(top_nodes)}

RECURSIVE PathOf(_, _)
PathOf(h, n) ==
    IF h[n].parent = None THEN <<h[n].name>>
    ELSE Append(PathOf(h, h[n].parent), h[n].name)

RECURSIVE SetMax(_)
SetMax(S) ==
    IF S = {} THEN 0
    ELSE LET x == CHOOSE y \in S : TRUE IN Max(x, SetMax(S \ {x}))

RECURSIVE Height(_, _)
Height(h, n) ==
    1 + SetMax({Height(h, c) : c \in DictValues(h[n].branch_nodes)})

TreeDepth(h, top_nodes) == SetMax({Height(h, r) : r \in DictValues(top_nodes)})

\* --------------------------------------------------------------- core.py
\* mutant: plain class attributes, seen by every thread
SharedLocal(t) == MainThread

\* _local = threading.local(): every thread sees its own attributes
threading_local(t) == t

NoAttrs == [initialized |-> FALSE, cur_node |-> None, top_nodes |-> <<>>]

initialize_thread_state(loc) ==
    IF ~loc.initialized
    THEN [initialized |-> TRUE, cur_node |-> None, top_nodes |-> <<>>]
    ELSE loc

\* mutant: the node is found or created and never made the active node
BeginNoActivate(loc0, h, name, now) ==
    LET loc == initialize_thread_state(loc0)
        cur_node == loc.cur_node
        got ==
            IF cur_node = None
            THEN LET tr == DictGet(loc.top_nodes, name) IN
                 IF tr = None
                 THEN LET new == NewId(h) IN
                      [heap |-> [i \in DOMAIN h \cup {new} |->
                                   IF i = new THEN TimerNode(name, 0, None) ELSE h[i]],
                       tr |-> new,
                       top |-> DictSet(loc.top_nodes, name, new)]
                 ELSE [heap |-> h, tr |-> tr, top |-> loc.top_nodes]
            ELSE LET b == get_or_create_branch(h, cur_node, name) IN
                 [heap |-> b.heap, tr |-> b.branch, top |-> loc.top_nodes]
    IN  [local |-> [loc EXCEPT !.top_nodes = got.top],
         heap |-> [got.heap EXCEPT ![got.tr] = begin_record(@, now)]]

\* mutant: every scope is a root, whatever is active
BeginAlwaysRoot(loc0, h, name, now) ==
    LET loc == initialize_thread_state(loc0)
        tr == DictGet(loc.top_nodes, name)
        got ==
            IF tr = None
            THEN LET new == NewId(h) IN
                 [heap |-> [i \in DOMAIN h \cup {new} |->
                              IF i = new THEN TimerNode(name, 0, None) ELSE h[i]],
                  tr |-> new,
                  top |-> DictSet(loc.top_nodes, name, new)]
            ELSE [heap |-> h, tr |-> tr, top |-> loc.top_nodes]
    IN  [local |-> [loc EXCEPT !.cur_node = got.tr, !.top_nodes = got.top],
         heap |-> [got.heap EXCEPT ![got.tr] = begin_record(@, now)]]

begin(loc0, h, name, now) ==
    LET loc == initialize_thread_state(loc0)
        cur_node == loc.cur_node
        got ==
            IF cur_node = None
            THEN LET tr == DictGet(loc.top_nodes, name) IN
                 IF tr = None
                 THEN LET new == NewId(h) IN
                      [heap |-> [i \in DOMAIN h \cup {new} |->
                                   IF i = new THEN TimerNode(name, 0, None) ELSE h[i]],
                       tr |-> new,
                       top |-> DictSet(loc.top_nodes, name, new)]
                 ELSE [heap |-> h, tr |-> tr, top |-> loc.top_nodes]
            ELSE LET b == get_or_create_branch(h, cur_node, name) IN
                 [heap |-> b.heap, tr |-> b.branch, top |-> loc.top_nodes]
    IN  [local |-> [loc EXCEPT !.cur_node = got.tr, !.top_nodes = got.top],
         heap |-> [got.heap EXCEPT ![got.tr] = begin_record(@, now)]]

\* mutant: the name is not compared with the active node's
EndAnyName(loc0, h, name, now) ==
    LET loc == initialize_thread_state(loc0)
        cur_node == loc.cur_node
    IN  IF cur_node = None
        THEN [local |-> loc, heap |-> h, raised |-> TRUE]
        ELSE [local |-> [loc EXCEPT !.cur_node =
                            IF h[cur_node].is_root THEN None ELSE h[cur_node].parent],
              heap |-> [h EXCEPT ![cur_node] = end_record(@, now)],
              raised |-> FALSE]

\* mutant: an end while idle returns silently
EndIdleIgnored(loc0, h, name, now) ==
    LET loc == initialize_thread_state(loc0)
        cur_node == loc.cur_node
    IN  IF cur_node = None
        THEN [local |-> loc, heap |-> h, raised |-> FALSE]
        ELSE IF h[cur_node].name # name
        THEN [local |-> loc, heap |-> h, raised |-> TRUE]
        ELSE [local |-> [loc EXCEPT !.cur_node =
                            IF h[cur_node].is_root THEN None ELSE h[cur_node].parent],
              heap |-> [h EXCEPT ![cur_node] = end_record(@, now)],
              raised |-> FALSE]

\* mutant: the active node is popped before the name is compared
EndPopsFirst(loc0, h, name, now) ==
    LET loc == initialize_thread_state(loc0)
        cur_node == loc.cur_node
        popped == [loc EXCEPT !.cur_node =
                      IF h[cur_node].is_root THEN None ELSE h[cur_node].parent]
    IN  IF cur_node = None
        THEN [local |-> loc, heap |-> h, raised |-> TRUE]
        ELSE IF h[cur_node].name # name
        THEN [local |-> popped, heap |-> h, raised |-> TRUE]
        ELSE [local |-> popped,
              heap |-> [h EXCEPT ![cur_node] = end_record(@, now)],
              raised |-> FALSE]

\* mutant: closing a record also clears the stamp of the node's parent
EndInvalidatesParent(loc0, h, name, now) ==
    LET loc == initialize_thread_state(loc0)
        cur_node == loc.cur_node
        closed == [h EXCEPT ![cur_node] = end_record(@, now)]
    IN  IF cur_node = None
        THEN [local |-> loc, heap |-> h, raised |-> TRUE]
        ELSE IF h[cur_node].name # name
        THEN [local |-> loc, heap |-> h, raised |-> TRUE]
        ELSE [local |-> [loc EXCEPT !.cur_node =
                            IF h[cur_node].is_root THEN None ELSE h[cur_node].parent],
              heap |-> IF h[cur_node].is_root THEN closed
                       ELSE [closed EXCEPT ![h[cur_node].parent].preprocessed = FALSE],
              raised |-> FALSE]

end(loc0, h, name, now) ==
    LET loc == initialize_thread_state(loc0)
        cur_node == loc.cur_node
    IN  IF cur_node = None
        THEN [local |-> loc, heap |-> h, raised |-> TRUE]
        ELSE IF h[cur_node].name # name
        THEN [local |-> loc, heap |-> h, raised |-> TRUE]
        ELSE [local |-> [loc EXCEPT !.cur_node =
                            IF h[cur_node].is_root THEN None ELSE h[cur_node].parent],
              heap |-> [h EXCEPT ![cur_node] = end_record(@, now)],
              raised |-> FALSE]

\* mutant: the active node is cleared and the root mapping is kept
ResetKeepsRoots(loc) == [loc EXCEPT !.cur_node = None]

reset(loc) == [loc EXCEPT !.cur_node = None, !.top_nodes = <<>>]

\* mutant: no finally clause, end(name) runs only after a normal return
ProfileExitNoFinally(loc, h, name, now, exc) ==
    IF exc
    THEN [local |-> initialize_thread_state(loc), heap |-> h, raised |-> FALSE]
    ELSE end(loc, h, name, now)

\* the finally clause of profile(): end(name) runs whether or not the body raised
profile_exit(loc, h, name, now, exc) == end(loc, h, name, now)

\* mutant: the dict is emptied in place and stays bound to the attribute
ClearedInPlace(top_nodes) == <<>>

\* _local.top_nodes = dict() binds the attribute to a new dict: the dict it was
\* bound to keeps its entries, for whoever still holds it
Unbound(top_nodes) == top_nodes

\* What a thread got from get_thread_results(): nothing yet, the dict its
\* top_nodes attribute is bound to (bound), or a dict that attribute was bound
\* to before a reset, with the entries it keeps (top_nodes)
NoResults == [taken |-> FALSE, bound |-> FALSE, top_nodes |-> <<>>]

get_thread_results(loc) ==
    [local |-> initialize_thread_state(loc),
     results |-> [NoResults EXCEPT !.taken = TRUE, !.bound = TRUE]]

\* the attributes of every thread and the dicts the threads hold
Referenced(locs, res) ==
    [x \in ((DOMAIN locs) \X {"local"}) \cup ((DOMAIN res) \X {"results"}) |->
        IF x[2] = "local" THEN locs[x[1]] ELSE res[x[1]]]

\* objects no root mapping refers to any more are gone
Collect(h, locs) ==
    LET live == UNION {Owned(h, locs[s].top_nodes) : s \in DOMAIN locs}
    IN  [i \in live |-> h[i]]

\* the kinds of error: end raises ValueError, a subscript out of range
\* IndexError
NoError == ""
ScopeMismatch == "ValueError"
IndexError == "IndexError"

\* ------------------------------------------ the facade the tests drive
\* ScopeTimer._TIMER_ENABLE: with the flag off _begin and _end return at once
_begin(on, loc, h, name, now) ==
    IF on THEN begin(loc, h, name, now) ELSE [local |-> loc, heap |-> h]

\* mutant: end does not consult the flag
EndIgnoresFlag(on, loc, h, name, now) == end(loc, h, name, now)

_end(on, loc, h, name, now) ==
    IF on THEN end(loc, h, name, now)
    ELSE [local |-> loc, heap |-> h, raised |-> FALSE]

\* ScopeTimer.profile_func(name)(func): what the decorator returns. With the
\* flag off it is func itself; with the flag on a wrapper that runs func inside
\* the begin / end pair of the scope timer_name.
NoName == ""
Function(func) == [func |-> func, name |-> NoName, wrapped |-> FALSE]
Wrapper(func, name) == [func |-> func, name |-> name, wrapped |-> TRUE]

\* mutant: the function is wrapped whatever the flag says
ProfileFuncAlwaysWraps(on, name, func) == Wrapper(func, name)

profile_func(on, name, func) ==
    IF ~on THEN Function(func) ELSE Wrapper(func, name)

\* the scope of a wrapper: the name supplied, else the function's own
timer_name(w) == IF w.name # NoName THEN w.name ELSE w.func

\* the functions a module defines, what each returns, and a name not yet
\* bound to a callable
Functions == {"f"}
ResultOf(func) == "expected_value"
CustomNames == {"A"}
NoResult == ""
NotDefined == <<>>

\* ScopeTimer._preprocess: the stats pass over every root of the calling thread
_preprocess(loc, h) == BuildStatsBranches(h, loc.top_nodes, 1)

\* the unfinished-scope report: get_open_nodes() of every root, in order
unclosed(loc, h) == OpenNodesBranches(h, loc.top_nodes, 1)

\* ScopeTimer._create_rich_group raises RuntimeError while a node of the tree
\* has not been stamped by a stats pass since its last record closed
RenderPrecondition == "RuntimeError"

_create_rich_group(loc, h) ==
    IF \E n \in Owned(h, loc.top_nodes) : ~h[n].preprocessed
    THEN [raised |-> TRUE, error |-> RenderPrecondition]
    ELSE [raised |-> FALSE, error |-> NoError]

\* summarize / save_txt / save_html of that facade: the unfinished-scope
\* report, the stats pass, then the rendering
summarize(loc, h) ==
    LET report == unclosed(loc, h)
        passed == _preprocess(loc, h)
        group == _create_rich_group(loc, passed)
    IN  [heap |-> passed, unclosed |-> report,
         raised |-> group.raised, error |-> group.error]

\* core.py's summarize: the total of a node is the sum of 'elapsed' over all
\* of its records, which is 0 for a record that is still open
get_total_time(node) == SeqSum(Elapsed(node.records, Len(node.records)))

overall_time(loc, h) ==
    SeqSum([i \in DOMAIN loc.top_nodes |-> get_total_time(h[loc.top_nodes[i][2]])])

\* ---------------------------------------------------------------- infer.py
TimeProperty(unit, scale, precision) ==
    [unit |-> unit, scale |-> scale, precision |-> precision]

\* a >= b for floats
RatGE(a, b) == a.num * b.den >= b.num * a.den

\* mutant: a worst time of exactly one second is not yet shown in seconds
InferUnitAboveOne(second_time, time_unit) ==
    IF time_unit \in {"s", "ms", "us"} THEN time_unit
    ELSE IF ~RatGE(Ratio(1, 1), second_time) THEN "s"
    ELSE IF RatGE(second_time, Ratio(1, 1000)) THEN "ms"
    ELSE "us"

_infer_time_unit(second_time, time_unit) ==
    IF time_unit \in {"s", "ms", "us"} THEN time_unit
    ELSE LET ONE_SECOND == Ratio(1, 1)
             ONE_MILISECOND == Ratio(1, 1000)
         IN  IF RatGE(second_time, ONE_SECOND) THEN "s"
             ELSE IF RatGE(second_time, ONE_MILISECOND) THEN "ms"
             ELSE "us"

_infer_time_scaling(time_unit) ==
    CASE time_unit = "s" -> 1
      [] time_unit = "ms" -> 1000
      [] time_unit = "us" -> 1000000

\* int(x): the fraction is cut off, towards zero
int(x) == IF x.num >= 0 THEN x.num \div x.den ELSE 0 - ((0 - x.num) \div x.den)

\* int(math.log10(m)) for an integer m >= 1
RECURSIVE Log10(_)
Log10(m) == IF m < 10 THEN 0 ELSE 1 + Log10(m \div 10)

\* mutant: the digits are counted one short
NumDigitsOneShort(n) ==
    LET n_int == int(n) IN
    IF n_int = 0 THEN 0 ELSE Log10(Abs(n_int))

_num_digits(n) ==
    LET n_int == int(n) IN
    IF n_int = 0 THEN 0 ELSE Log10(Abs(n_int)) + 1

\* the precision asked for: the string "auto" or an int
AutoPrecision == [auto |-> TRUE, value |-> 0]
IntPrecision(p) == [auto |-> FALSE, value |-> p]

precision_cap == 6

\* mutant: the microsecond case is tested before the explicit request
PrecisionUnitFirst(second_time, time_unit, scale, precision) ==
    IF time_unit = "us" THEN 1
    ELSE IF ~precision.auto THEN precision.value
    ELSE LET scaled_time == RatMul(second_time, Ratio(scale, 1))
             digit == _num_digits(scaled_time)
         IN  IF digit >= precision_cap THEN 0
             ELSE IF digit <= 0 THEN precision_cap
             ELSE precision_cap - digit

_infer_time_precision(second_time, time_unit, scale, precision) ==
    IF ~precision.auto THEN precision.value
    ELSE LET scaled_time == RatMul(second_time, Ratio(scale, 1))
             digit == _num_digits(scaled_time)
         IN  IF time_unit = "us" THEN 1
             ELSE IF digit >= precision_cap THEN 0
             ELSE IF digit <= 0 THEN precision_cap
             ELSE precision_cap - digit

infer_time_property(worst_time, unit, precision) ==
    LET time_unit == _infer_time_unit(worst_time, unit)
        time_scale == _infer_time_scaling(time_unit)
        time_precision == _infer_time_precision(worst_time, time_unit, time_scale,
                                                precision)
    IN  TimeProperty(time_unit, time_scale, time_precision)

\* no display property has been asked for
NoInference == <<>>

\* the worst times, units and precisions a display property is asked for
RECURSIVE Pow10(_)
Pow10(e) == IF e = 0 THEN 1 ELSE 10 * Pow10(e - 1)

Exponents == (0 - 7)..5

WorstTimes ==
    {IF e >= 0 THEN Ratio(m * Pow10(e), 1) ELSE Ratio(m, Pow10(0 - e)) :
        m \in 0..MaxMantissa, e \in Exponents}

Units == {"auto", "s", "ms", "us"}

Precisions == {AutoPrecision, IntPrecision(0), IntPrecision(3)}

NoProperty == <<>>

\* ------------------------------------------------------ history variables
\* stack: the names begun and not yet ended, closed: how often each name-path
\* was ended, maxOpen: the most names ever open at once; all since the last
\* reset. An end that does not name the innermost open scope closes nothing.
\* dirty: the names of the roots under which a record was closed since the
\* last stats pass over that root.
NoHist == [stack |-> <<>>, closed |-> EmptyBag, maxOpen |-> 0, dirty |-> {}]

Front(s) == SubSeq(s, 1, Len(s) - 1)

Matches(stack, name) == stack # <<>> /\ stack[Len(stack)] = name

HistBegin(hs, name) ==
    [hs EXCEPT !.stack = Append(@, name),
               !.maxOpen = Max(@, Len(hs.stack) + 1)]

HistEnd(hs, name) ==
    IF Matches(hs.stack, name)
    THEN [hs EXCEPT !.stack = Front(@), !.closed = @ (+) SetToBag({hs.stack}),
                    !.dirty = @ \cup {hs.stack[1]}]
    ELSE hs

\* A frame of profile(): name is the generator's argument. The rest is history:
\* the active node before entry, the scope's node and its call count at entry,
\* the names the body has begun and not yet ended (body), whether every end of
\* the body named the innermost scope the body had open (ok), and whether the
\* body called reset. The frame of a call of a function defined under
\* profile_func carries the function (func), the name given to the decorator
\* (custom), whether the callable is a wrapper (wrapped), and whether the flag
\* has been on from the call on (on).
NoFrame == [name |-> "", before |-> None, node |-> None, ncall |-> 0,
            body |-> <<>>, ok |-> TRUE, reset |-> FALSE,
            func |-> "", custom |-> NoName, wrapped |-> TRUE, on |-> TRUE]

Unbalanced(f) ==
    [NoFrame EXCEPT !.name = f.name, !.ok = FALSE, !.func = f.func,
                    !.custom = f.custom, !.wrapped = f.wrapped, !.on = f.on]

FrameBegin(f, name) == IF f.ok THEN [f EXCEPT !.body = Append(@, name)] ELSE f

FrameEnd(f, name) ==
    IF f.ok /\ Matches(f.body, name) THEN [f EXCEPT !.body = Front(@)]
    ELSE Unbalanced(f)

\* a reset drops what the body had open (no later end of the body closes it),
\* the scope's node, and the node that was active before entry
FrameReset(f) ==
    IF f.ok /\ f.body = <<>>
    THEN [NoFrame EXCEPT !.name = f.name, !.reset = TRUE,
                         !.before = IF f.before = None THEN None ELSE Gone,
                         !.func = f.func, !.custom = f.custom,
                         !.wrapped = f.wrapped, !.on = f.on]
    ELSE Unbalanced(f)

FramesBegin(fs, name) == [i \in DOMAIN fs |-> FrameBegin(fs[i], name)]
FramesEnd(fs, name) == [i \in DOMAIN fs |-> FrameEnd(fs[i], name)]
FramesReset(fs) == [i \in DOMAIN fs |-> FrameReset(fs[i])]

\* the flag goes off while a function defined under profile_func runs
FramesDisable(fs) ==
    [i \in DOMAIN fs |-> IF fs[i].func # "" THEN [fs[i] EXCEPT !.on = FALSE] ELSE fs[i]]

BodyBalanced(f) == f.ok /\ f.body = <<>>

\* prog[t]: the well-formed program thread t runs: the scopes it has begun
\* and not yet ended, innermost last, each with the value the flag had at its
\* begin (stack), and whether every end so far was made with the flag at the
\* value it had at the matching begin (steady)
NoProgram == [stack |-> <<>>, steady |-> TRUE]

ProgramBegin(p, name, on) == [p EXCEPT !.stack = Append(@, [name |-> name, on |-> on])]

ProgramEnd(p, on) ==
    [p EXCEPT !.stack = Front(@),
              !.steady = @ /\ (p.stack[Len(p.stack)].on = on)]

\* the call the last step made, and whether it raised
Call(t, op, name, raised) ==
    [thread |-> t, op |-> op, name |-> name, raised |-> raised, frame |-> NoFrame,
     exc |-> FALSE, error |-> NoError, result |-> NoResult]

\* solo[t]: the calls of thread t replayed on a heap and attributes of its own
Alone == [local |-> NoAttrs, heap |-> <<>>]

SoloBegin(so, name, now) ==
    LET r == begin(so.local, so.heap, name, now) IN [local |-> r.local, heap |-> r.heap]

SoloEnd(so, name, now) ==
    LET r == end(so.local, so.heap, name, now) IN [local |-> r.local, heap |-> r.heap]

SoloReset(so) == [local |-> reset(so.local), heap |-> <<>>]

SoloSummarize(so) == [so EXCEPT !.local = initialize_thread_state(@)]

\* ----------------------------------------------------------------- actions
Init ==
    /\ nodes = <<>>
    /\ local = [t \in Threads |-> NoAttrs]
    /\ clock = 0
    /\ frames = [t \in Threads |-> <<>>]
    /\ pending = [t \in Threads |-> "none"]
    /\ last = Call(MainThread, "init", "", FALSE)
    /\ hist = [t \in Threads |-> NoHist]
    /\ solo = [t \in Threads |-> Alone]
    /\ enabled = TRUE
    /\ infer = NoInference
    /\ callables = [f \in Functions |-> NotDefined]
    /\ open_nodes = NoReport
    /\ results = [t \in Threads |-> NoResults]
    /\ prog = [t \in Threads |-> NoProgram]

\* an exception raised outside every profile block goes to the caller, which
\* handles it; inside a block it is in flight until an except clause handles
\* it or the outermost block is left
Propagates(t, raised) ==
    IF raised /\ frames[t] # <<>> THEN ScopeMismatch ELSE "none"

RECURSIVE TotalRecords(_, _)
TotalRecords(h, S) ==
    IF S = {} THEN 0
    ELSE LET x == CHOOSE y \in S : TRUE
         IN  Len(h[x].records) + TotalRecords(h, S \ {x})

WithinBounds(h, cap) == TotalRecords(h, DOMAIN h) <= cap

Begin(t, cap) ==
    \E name \in Names, now \in perf_counter(clock) :
        LET r == _begin(enabled, local[threading_local(t)], nodes, name, now) IN
        /\ pending[t] = "none"
        /\ WithinBounds(r.heap, cap)
        /\ nodes' = r.heap
        /\ local' = [local EXCEPT ![threading_local(t)] = r.local]
        /\ clock' = IF enabled THEN now ELSE clock
        /\ hist' = [hist EXCEPT ![t] = IF enabled THEN HistBegin(@, name) ELSE @]
        /\ solo' = [solo EXCEPT ![t] = IF enabled THEN SoloBegin(@, name, now) ELSE @]
        /\ frames' = [frames EXCEPT ![t] =
                         IF enabled THEN FramesBegin(@, name) ELSE @]
        /\ last' = Call(t, "begin", name, FALSE)
        /\ UNCHANGED <<pending, enabled, infer, callables, open_nodes, results, prog>>

End(t) ==
    \E name \in Names, now \in perf_counter(clock) :
        LET r == _end(enabled, local[threading_local(t)], nodes, name, now) IN
        /\ pending[t] = "none"
        /\ nodes' = r.heap
        /\ local' = [local EXCEPT ![threading_local(t)] = r.local]
        /\ clock' = IF r.raised \/ ~enabled THEN clock ELSE now
        /\ hist' = [hist EXCEPT ![t] = IF enabled THEN HistEnd(@, name) ELSE @]
        /\ solo' = [solo EXCEPT ![t] = IF enabled THEN SoloEnd(@, name, now) ELSE @]
        /\ frames' = [frames EXCEPT ![t] =
                         IF enabled THEN FramesEnd(@, name) ELSE @]
        /\ pending' = [pending EXCEPT ![t] = Propagates(t, r.raised)]
        /\ last' = [Call(t, "end", name, r.raised) EXCEPT
                      !.error = IF r.raised THEN ScopeMismatch ELSE NoError]
        /\ UNCHANGED <<enabled, infer, callables, open_nodes, results, prog>>

Reset(t) ==
    /\ pending[t] = "none"
    /\ local' = [local EXCEPT ![threading_local(t)] = reset(@)]
    /\ results' = [results EXCEPT ![t] =
                      IF @.bound
                      THEN [NoResults EXCEPT
                              !.taken = TRUE,
                              !.top_nodes = Unbound(local[threading_local(t)].top_nodes)]
                      ELSE @]
    /\ nodes' = Collect(nodes, Referenced(local', results'))
    /\ hist' = [hist EXCEPT ![t] = NoHist]
    /\ solo' = [solo EXCEPT ![t] = SoloReset(@)]
    /\ frames' = [frames EXCEPT ![t] = FramesReset(@)]
    /\ last' = Call(t, "reset", "", FALSE)
    /\ UNCHANGED <<clock, pending, enabled, infer, callables, open_nodes, prog>>

Summarize(t) ==
    /\ pending[t] = "none"
    /\ local' = [local EXCEPT ![threading_local(t)] = initialize_thread_state(@)]
    /\ solo' = [solo EXCEPT ![t] = SoloSummarize(@)]
    /\ last' = Call(t, "summarize", "", FALSE)
    /\ UNCHANGED <<nodes, clock, frames, pending, hist, enabled, infer, callables, open_nodes, results,
                   prog>>

\* with ScopeTimer.profile(name): entry
ProfileEnter(t) ==
    \E name \in Names, now \in perf_counter(clock) :
        LET loc == initialize_thread_state(local[threading_local(t)])
            r == _begin(enabled, local[threading_local(t)], nodes, name, now)
            node == r.local.cur_node
        IN
        /\ pending[t] = "none"
        /\ Len(frames[t]) < MaxFrames
        /\ WithinBounds(r.heap, MaxRecordsProfile)
        /\ nodes' = r.heap
        /\ local' = [local EXCEPT ![threading_local(t)] = r.local]
        /\ clock' = IF enabled THEN now ELSE clock
        /\ hist' = [hist EXCEPT ![t] = IF enabled THEN HistBegin(@, name) ELSE @]
        /\ solo' = [solo EXCEPT ![t] = IF enabled THEN SoloBegin(@, name, now) ELSE @]
        /\ frames' = [frames EXCEPT ![t] =
                         IF enabled
                         THEN Append(FramesBegin(@, name),
                                 [NoFrame EXCEPT !.name = name, !.before = loc.cur_node,
                                                 !.node = node,
                                                 !.ncall = r.heap[node].ncall])
                         ELSE Append(@, Unbalanced([NoFrame EXCEPT !.name = name]))]
        /\ last' = Call(t, "profile_enter", name, FALSE)
        /\ UNCHANGED <<pending, enabled, infer, callables, open_nodes, results, prog>>

\* the body of a profile block raises an exception of its own
BodyRaise(t) ==
    /\ pending[t] = "none"
    /\ frames[t] # <<>>
    /\ pending' = [pending EXCEPT ![t] = "Error"]
    /\ last' = [Call(t, "raise", "", TRUE) EXCEPT !.error = "Error"]
    /\ UNCHANGED <<nodes, local, clock, frames, hist, solo, enabled, infer, callables, open_nodes, results,
                   prog>>

\* with ScopeTimer.profile(name): exit, by normal return or with an exception
\* in flight
ProfileExit(t) ==
    \E now \in perf_counter(clock) :
        LET f == frames[t][Len(frames[t])]
            r == IF enabled
                 THEN profile_exit(local[threading_local(t)], nodes, f.name, now,
                                   pending[t] # "none")
                 ELSE _end(enabled, local[threading_local(t)], nodes, f.name, now)
        IN
        /\ frames[t] # <<>>
        /\ nodes' = r.heap
        /\ local' = [local EXCEPT ![threading_local(t)] = r.local]
        /\ clock' = IF r.raised \/ ~enabled THEN clock ELSE now
        /\ hist' = [hist EXCEPT ![t] = IF enabled THEN HistEnd(@, f.name) ELSE @]
        /\ solo' = [solo EXCEPT ![t] = IF enabled THEN SoloEnd(@, f.name, now) ELSE @]
        /\ frames' = [frames EXCEPT ![t] =
                         IF enabled THEN FramesEnd(Front(@), f.name) ELSE Front(@)]
        /\ pending' = [pending EXCEPT ![t] =
                          IF Len(frames[t]) = 1 THEN "none"
                          ELSE IF r.raised THEN ScopeMismatch ELSE @]
        /\ last' = [Call(t, "profile_exit", f.name, r.raised) EXCEPT
                      !.frame = IF BodyBalanced(f) THEN f ELSE Unbalanced(f),
                      !.exc = (pending[t] # "none"),
                      !.error = IF r.raised THEN ScopeMismatch ELSE NoError]
        /\ UNCHANGED <<enabled, infer, callables, open_nodes, results, prog>>

\* an except clause around the call, or around the block, handles the exception
Catch(t) ==
    /\ pending[t] # "none"
    /\ pending' = [pending EXCEPT ![t] = "none"]
    /\ last' = Call(t, "except", "", FALSE)
    /\ UNCHANGED <<nodes, local, clock, frames, hist, solo, enabled, infer, callables, open_nodes, results,
                   prog>>

\* a thread running a well-formed program: begin(name) of a new scope inside
\* the scopes it has open
ScopeBegin(t) ==
    \E name \in Names, now \in perf_counter(clock) :
        LET r == _begin(enabled, local[threading_local(t)], nodes, name, now) IN
        /\ pending[t] = "none"
        /\ Len(prog[t].stack) < MaxDepth
        /\ WithinBounds(r.heap, MaxRecordsProgram)
        /\ nodes' = r.heap
        /\ local' = [local EXCEPT ![threading_local(t)] = r.local]
        /\ clock' = IF enabled THEN now ELSE clock
        /\ prog' = [prog EXCEPT ![t] = ProgramBegin(@, name, enabled)]
        /\ last' = Call(t, "begin", name, FALSE)
        /\ UNCHANGED <<frames, pending, hist, solo, enabled, infer, callables,
                       open_nodes, results>>

\* end(name) of the innermost scope the program has open
ScopeEnd(t) ==
    \E now \in perf_counter(clock) :
        LET name == prog[t].stack[Len(prog[t].stack)].name
            r == _end(enabled, local[threading_local(t)], nodes, name, now)
        IN
        /\ pending[t] = "none"
        /\ prog[t].stack # <<>>
        /\ nodes' = r.heap
        /\ local' = [local EXCEPT ![threading_local(t)] = r.local]
        /\ clock' = IF r.raised \/ ~enabled THEN clock ELSE now
        /\ prog' = [prog EXCEPT ![t] = ProgramEnd(@, enabled)]
        /\ last' = [Call(t, "end", name, r.raised) EXCEPT
                      !.error = IF r.raised THEN ScopeMismatch ELSE NoError]
        /\ UNCHANGED <<frames, pending, hist, solo, enabled, infer, callables,
                       open_nodes, results>>

\* ScopeTimer.enable() / ScopeTimer.disable(): the process-wide flag
Enable(t) ==
    /\ pending[t] = "none"
    /\ enabled' = TRUE
    /\ last' = Call(t, "enable", "", FALSE)
    /\ UNCHANGED <<nodes, local, clock, frames, pending, hist, solo, infer,
                   callables, open_nodes, results, prog>>

Disable(t) ==
    /\ pending[t] = "none"
    /\ enabled' = FALSE
    /\ frames' = [u \in Threads |-> FramesDisable(frames[u])]
    /\ last' = Call(t, "disable", "", FALSE)
    /\ UNCHANGED <<nodes, local, clock, pending, hist, solo, infer, callables, open_nodes, results,
                   prog>>

\* @ScopeTimer.profile_func(name) above def func: the decorator runs when the
\* def statement does, outside every call, and binds func to what it returns
ProfileFunc(t) ==
    \E func \in Functions, name \in {NoName} \cup CustomNames :
        /\ pending[t] = "none"
        /\ frames[t] = <<>>
        /\ callables' = [callables EXCEPT ![func] = profile_func(enabled, name, func)]
        /\ last' = Call(t, "profile_func", func, FALSE)
        /\ UNCHANGED <<nodes, local, clock, frames, pending, hist, solo, enabled,
                       infer, open_nodes, results, prog>>

\* func(): the callable bound to func is called from outside every call. A
\* wrapper enters the scope timer_name before the body; the function itself
\* goes straight to the body.
CallFunc(t) ==
    \E func \in Functions, now \in perf_counter(clock) :
        LET w == callables[func]
            loc == initialize_thread_state(local[threading_local(t)])
            s == timer_name(w)
            acts == w.wrapped /\ enabled
            r == IF w.wrapped
                 THEN _begin(enabled, local[threading_local(t)], nodes, s, now)
                 ELSE [local |-> local[threading_local(t)], heap |-> nodes]
            node == r.local.cur_node
            called == [NoFrame EXCEPT !.name = IF w.wrapped THEN s ELSE "",
                                      !.func = func, !.custom = w.name,
                                      !.wrapped = w.wrapped, !.on = enabled]
        IN
        /\ w # NotDefined
        /\ pending[t] = "none"
        /\ frames[t] = <<>>
        /\ WithinBounds(r.heap, MaxRecordsFunc)
        /\ nodes' = r.heap
        /\ local' = [local EXCEPT ![threading_local(t)] = r.local]
        /\ clock' = IF acts THEN now ELSE clock
        /\ hist' = [hist EXCEPT ![t] = IF acts THEN HistBegin(@, s) ELSE @]
        /\ solo' = [solo EXCEPT ![t] = IF acts THEN SoloBegin(@, s, now) ELSE @]
        /\ frames' = [frames EXCEPT ![t] =
                         IF acts
                         THEN Append(@, [called EXCEPT !.before = loc.cur_node,
                                                       !.node = node,
                                                       !.ncall = r.heap[node].ncall])
                         ELSE Append(@, Unbalanced(called))]
        /\ last' = Call(t, "call", func, FALSE)
        /\ UNCHANGED <<pending, enabled, infer, callables, open_nodes, results, prog>>

\* the call returns, with the function's result or with an exception in
\* flight; a wrapper leaves its scope on the way out
ReturnFunc(t) ==
    \E now \in perf_counter(clock) :
        LET f == frames[t][Len(frames[t])]
            acts == f.wrapped /\ enabled
            r == IF acts
                 THEN profile_exit(local[threading_local(t)], nodes, f.name, now,
                                   pending[t] # "none")
                 ELSE IF f.wrapped
                 THEN _end(enabled, local[threading_local(t)], nodes, f.name, now)
                 ELSE [local |-> local[threading_local(t)], heap |-> nodes,
                       raised |-> FALSE]
        IN
        /\ frames[t] # <<>>
        /\ f.func # ""
        /\ nodes' = r.heap
        /\ local' = [local EXCEPT ![threading_local(t)] = r.local]
        /\ clock' = IF r.raised \/ ~acts THEN clock ELSE now
        /\ hist' = [hist EXCEPT ![t] = IF acts THEN HistEnd(@, f.name) ELSE @]
        /\ solo' = [solo EXCEPT ![t] = IF acts THEN SoloEnd(@, f.name, now) ELSE @]
        /\ frames' = [frames EXCEPT ![t] =
                         IF acts THEN FramesEnd(Front(@), f.name) ELSE Front(@)]
        /\ pending' = [pending EXCEPT ![t] =
                          IF Len(frames[t]) = 1 THEN "none"
                          ELSE IF r.raised THEN ScopeMismatch ELSE @]
        /\ last' = [Call(t, "return", f.func, r.raised) EXCEPT
                      !.frame = IF BodyBalanced(f) THEN f ELSE Unbalanced(f),
                      !.exc = (pending[t] # "none"),
                      !.error = IF r.raised THEN ScopeMismatch ELSE NoError,
                      !.result = IF r.raised \/ pending[t] # "none" THEN NoResult
                                 ELSE ResultOf(f.func)]
        /\ UNCHANGED <<enabled, infer, callables, open_nodes, results, prog>>

\* ------------------------------------ timer nodes driven without the facade
\* root = TimerNode(name): the first node of a tree
NewTimerNode ==
    \E name \in Names :
        /\ nodes = <<>>
        /\ nodes' = <<TimerNode(name, 0, None)>>
        /\ last' = Call(MainThread, "TimerNode", name, FALSE)
        /\ UNCHANGED <<local, clock, frames, pending, hist, solo, enabled, infer,
                       callables, open_nodes, results, prog>>

\* node.begin_record()
BeginRecord ==
    \E self \in DOMAIN nodes, now \in perf_counter(clock) :
        LET h == [nodes EXCEPT ![self] = begin_record(@, now)] IN
        /\ WithinBounds(h, MaxRecordsNode)
        /\ nodes' = h
        /\ clock' = now
        /\ last' = Call(MainThread, "begin_record", nodes[self].name, FALSE)
        /\ UNCHANGED <<local, frames, pending, hist, solo, enabled, infer, callables, open_nodes, results,
                   prog>>

\* node.end_record(), with or without an open record
EndRecord ==
    \E self \in DOMAIN nodes, now \in perf_counter(clock) :
        LET r == TimerNode_end_record(nodes[self], now) IN
        /\ nodes' = [nodes EXCEPT ![self] = r.node]
        /\ clock' = IF r.raised THEN clock ELSE now
        /\ last' = [Call(MainThread, "end_record", nodes[self].name, r.raised) EXCEPT
                      !.error = IF r.raised THEN IndexError ELSE NoError]
        /\ UNCHANGED <<local, frames, pending, hist, solo, enabled, infer, callables, open_nodes, results,
                   prog>>

\* node.get_open_nodes() on any node of a tree
GetOpenNodes ==
    \E self \in DOMAIN nodes :
        /\ open_nodes' = [self |-> self, list |-> get_open_nodes(nodes, self)]
        /\ last' = Call(MainThread, "get_open_nodes", nodes[self].name, FALSE)
        /\ UNCHANGED <<nodes, local, clock, frames, pending, hist, solo, enabled,
                       infer, callables, results, prog>>

\* results = ScopeTimer.get_thread_results()
GetThreadResults(t) ==
    LET r == get_thread_results(local[threading_local(t)]) IN
    /\ pending[t] = "none"
    /\ local' = [local EXCEPT ![threading_local(t)] = r.local]
    /\ results' = [results EXCEPT ![t] = r.results]
    /\ nodes' = Collect(nodes, Referenced(local', results'))
    /\ solo' = [solo EXCEPT ![t] = SoloSummarize(@)]
    /\ last' = Call(t, "get_thread_results", "", FALSE)
    /\ UNCHANGED <<clock, frames, pending, hist, enabled, infer, callables,
                   open_nodes, prog>>

\* root.build_stats_recursive() on one root of the calling thread
BuildStats(t) ==
    \E i \in DOMAIN local[threading_local(t)].top_nodes :
        LET name == local[threading_local(t)].top_nodes[i][1]
            root == local[threading_local(t)].top_nodes[i][2]
        IN
        /\ pending[t] = "none"
        /\ nodes' = build_stats_recursive(nodes, root)
        /\ hist' = [hist EXCEPT ![t].dirty = @ \ {name}]
        /\ last' = Call(t, "build_stats", name, FALSE)
        /\ UNCHANGED <<local, clock, frames, pending, solo, enabled, infer, callables, open_nodes, results,
                   prog>>

\* ScopeTimer._create_rich_group(): rendering without a pass of its own
CreateRichGroup(t) ==
    LET loc == initialize_thread_state(local[threading_local(t)])
        r == _create_rich_group(loc, nodes)
    IN
    /\ pending[t] = "none"
    /\ local' = [local EXCEPT ![threading_local(t)] = loc]
    /\ pending' = [pending EXCEPT ![t] =
                      IF r.raised /\ frames[t] # <<>> THEN r.error ELSE "none"]
    /\ last' = [Call(t, "render", "", r.raised) EXCEPT !.error = r.error]
    /\ UNCHANGED <<nodes, clock, frames, hist, solo, enabled, infer, callables, open_nodes, results,
                   prog>>

\* summarize / save_txt / save_html with the pass run first
SummarizeStats(t) ==
    LET loc == initialize_thread_state(local[threading_local(t)])
        r == summarize(loc, nodes)
    IN
    /\ pending[t] = "none"
    /\ local' = [local EXCEPT ![threading_local(t)] = loc]
    /\ nodes' = r.heap
    /\ hist' = [hist EXCEPT ![t].dirty = {}]
    /\ pending' = [pending EXCEPT ![t] =
                      IF r.raised /\ frames[t] # <<>> THEN r.error ELSE "none"]
    /\ last' = [Call(t, "summary", "", r.raised) EXCEPT !.error = r.error]
    /\ UNCHANGED <<clock, frames, solo, enabled, infer, callables, open_nodes, results,
                   prog>>

\* infer_time_property(worst_time, unit, precision)
InferTimeProperty ==
    /\ infer # NoInference
    /\ infer.property = NoProperty
    /\ infer' = [infer EXCEPT !.property =
                    infer_time_property(infer.worst_time, infer.unit, infer.precision)]
    /\ last' = Call(MainThread, "infer_time_property", "", FALSE)
    /\ UNCHANGED <<nodes, local, clock, frames, pending, hist, solo, enabled,
                   callables, open_nodes, results, prog>>

\* one thread: begin / end / reset / summarize
Next ==
    \/ Begin(MainThread, MaxRecords)
    \/ End(MainThread)
    \/ Reset(MainThread)
    \/ Summarize(MainThread)

Spec == Init /\ [][Next]_vars

\* one thread, with profile blocks
NextProfile ==
    \/ Begin(MainThread, MaxRecordsProfile)
    \/ End(MainThread)
    \/ Reset(MainThread)
    \/ ProfileEnter(MainThread)
    \/ BodyRaise(MainThread)
    \/ ProfileExit(MainThread)
    \/ Catch(MainThread)

SpecProfile == Init /\ [][NextProfile]_vars

\* one thread: begin / end / reset, the stats pass, rendering and summaries
\* that run the pass first
NextStats ==
    \/ Begin(MainThread, MaxRecordsStats)
    \/ End(MainThread)
    \/ Reset(MainThread)
    \/ BuildStats(MainThread)
    \/ CreateRichGroup(MainThread)
    \/ SummarizeStats(MainThread)

SpecStats == Init /\ [][NextStats]_vars

\* the display property of every worst time, unit and precision asked for
InitInfer ==
    /\ nodes = <<>>
    /\ local = [t \in Threads |-> NoAttrs]
    /\ clock = 0
    /\ frames = [t \in Threads |-> <<>>]
    /\ pending = [t \in Threads |-> "none"]
    /\ last = Call(MainThread, "init", "", FALSE)
    /\ hist = [t \in Threads |-> NoHist]
    /\ solo = [t \in Threads |-> Alone]
    /\ enabled = TRUE
    /\ callables = [f \in Functions |-> NotDefined]
    /\ open_nodes = NoReport
    /\ results = [t \in Threads |-> NoResults]
    /\ prog = [t \in Threads |-> NoProgram]
    /\ \E w \in WorstTimes, u \in Units, p \in Precisions :
          infer = [worst_time |-> w, unit |-> u, precision |-> p,
                   property |-> NoProperty]

NextInfer == InferTimeProperty

SpecInfer == InitInfer /\ [][NextInfer]_vars

\* one thread, with profile blocks and the enable flag
NextToggle ==
    \/ Begin(MainThread, MaxRecordsToggle)
    \/ End(MainThread)
    \/ Reset(MainThread)
    \/ ProfileEnter(MainThread)
    \/ ProfileExit(MainThread)
    \/ Catch(MainThread)
    \/ Enable(MainThread)
    \/ Disable(MainThread)

SpecToggle == Init /\ [][NextToggle]_vars

\* one thread running a well-formed program while another thread sets the flag
NextProgram ==
    \/ ScopeBegin(MainThread)
    \/ ScopeEnd(MainThread)
    \/ \E t \in Threads \ {MainThread} : Enable(t)
    \/ \E t \in Threads \ {MainThread} : Disable(t)

SpecProgram == Init /\ [][NextProgram]_vars

\* one thread, the flag on at import: a function defined under profile_func,
\* its calls, the begin / end / reset calls of its body and of its caller, and
\* the flag going off
NextFunc ==
    \/ Begin(MainThread, MaxRecordsFunc)
    \/ End(MainThread)
    \/ Reset(MainThread)
    \/ Disable(MainThread)
    \/ ProfileFunc(MainThread)
    \/ CallFunc(MainThread)
    \/ ReturnFunc(MainThread)

SpecFunc == Init /\ [][NextFunc]_vars

\* the flag off at import (SCOPE_TIMER_ENABLE=0)
InitOff ==
    /\ nodes = <<>>
    /\ local = [t \in Threads |-> NoAttrs]
    /\ clock = 0
    /\ frames = [t \in Threads |-> <<>>]
    /\ pending = [t \in Threads |-> "none"]
    /\ last = Call(MainThread, "init", "", FALSE)
    /\ hist = [t \in Threads |-> NoHist]
    /\ solo = [t \in Threads |-> Alone]
    /\ enabled = FALSE
    /\ infer = NoInference
    /\ callables = [f \in Functions |-> NotDefined]
    /\ open_nodes = NoReport
    /\ results = [t \in Threads |-> NoResults]
    /\ prog = [t \in Threads |-> NoProgram]

\* one thread, the flag off at import: a function defined under profile_func,
\* its calls, the begin / end calls of its body and of its caller, and the
\* flag going on
NextFuncOff ==
    \/ Begin(MainThread, MaxRecordsFunc)
    \/ End(MainThread)
    \/ Enable(MainThread)
    \/ ProfileFunc(MainThread)
    \/ CallFunc(MainThread)
    \/ ReturnFunc(MainThread)

SpecFuncOff == InitOff /\ [][NextFuncOff]_vars

\* one timer node, timed without the facade
NextNode ==
    \/ NewTimerNode
    \/ BeginRecord
    \/ EndRecord

SpecNode == Init /\ [][NextNode]_vars

\* A tree built without the facade: root = TimerNode("root"), then
\* get_or_create_branch(name[i]) on node parent[i] for every further node i,
\* then on every node the record calls of status[i], all at one clock reading
Statuses == {<<>>, <<"closed">>, <<"open">>, <<"closed", "open">>}

RECURSIVE Branched(_, _, _, _)
Branched(h, i, parent, name) ==
    IF i \notin DOMAIN parent THEN h
    ELSE Branched(get_or_create_branch(h, parent[i], name[i]).heap, i + 1, parent, name)

RECURSIVE Recorded(_, _, _)
Recorded(node, status, now) ==
    IF status = <<>> THEN node
    ELSE LET begun == begin_record(node, now) IN
         Recorded(IF Head(status) = "closed" THEN end_record(begun, now) ELSE begun,
                  Tail(status), now)

InitTrees ==
    /\ local = [t \in Threads |-> NoAttrs]
    /\ clock = 0
    /\ frames = [t \in Threads |-> <<>>]
    /\ pending = [t \in Threads |-> "none"]
    /\ last = Call(MainThread, "init", "", FALSE)
    /\ hist = [t \in Threads |-> NoHist]
    /\ solo = [t \in Threads |-> Alone]
    /\ enabled = TRUE
    /\ infer = NoInference
    /\ callables = [f \in Functions |-> NotDefined]
    /\ open_nodes = NoReport
    /\ results = [t \in Threads |-> NoResults]
    /\ prog = [t \in Threads |-> NoProgram]
    /\ \E k \in 1..MaxNodes :
          \E parent \in [2..k -> 1..k], name \in [2..k -> Names],
             status \in [1..k -> Statuses] :
              /\ \A i \in 2..k : parent[i] < i
              /\ \A i, j \in 2..k :
                    (i # j /\ parent[i] = parent[j]) => name[i] # name[j]
              /\ nodes = LET h == Branched(<<TimerNode("root", 0, None)>>, 2, parent, name)
                         IN  [i \in DOMAIN h |-> Recorded(h[i], status[i], clock)]

\* the unfinished scopes of every node of every such tree
NextOpenNodes == GetOpenNodes

SpecOpenNodes == InitTrees /\ [][NextOpenNodes]_vars

\* one thread: begin / end / reset and the export of its root mapping
NextExport ==
    \/ Begin(MainThread, MaxRecordsExport)
    \/ End(MainThread)
    \/ Reset(MainThread)
    \/ GetThreadResults(MainThread)

SpecExport == Init /\ [][NextExport]_vars

\* every thread, every interleaving of begin / end / reset / summarize
NextMT ==
    \E t \in Threads :
        \/ Begin(t, MaxRecordsMT)
        \/ End(t)
        \/ Reset(t)
        \/ Summarize(t)

SpecMT == Init /\ [][NextMT]_vars

\* ------------------------------------------------------------ properties
\* what a call of thread t finds: its attributes after lazy initialisation
Attrs(t) == initialize_thread_state(local[threading_local(t)])

Roots(t) == local[threading_local(t)].top_nodes

Tree(t) == Owned(nodes, Roots(t))

RECURSIVE RootOf(_, _)
RootOf(h, n) == IF h[n].parent = None THEN n ELSE RootOf(h, h[n].parent)

\* every node made for thread t's tree, linked into a dict or not
NodesOf(t) == {n \in DOMAIN nodes : RootOf(nodes, n) \in DictValues(Roots(t))}

Balanced(t) == hist[t].stack = <<>>

Did(t, op) == last.thread = t /\ last.op = op

\* C1: LIFO enforcement: whenever a thread has an active node and calls
\* end(name) with a name other than the active node's, the call raises
\* Scope-Mismatch, whatever the tree holds.
C1_LifoEnforcement ==
    [][\A t \in Threads :
          (/\ last'.thread = t
           /\ last'.op = "end"
           /\ Attrs(t).cur_node # None
           /\ nodes[Attrs(t).cur_node].name # last'.name)
          => last'.raised]_vars

C1_Witness ==
    /\ Did(MainThread, "end")
    /\ last.raised
    /\ Attrs(MainThread).cur_node # None
    /\ nodes[Attrs(MainThread).cur_node].name # last.name
    /\ Cardinality(DOMAIN nodes) >= 2

\* C2: idle-end enforcement: whenever the calling thread's active node is idle
\* (fresh thread, after a balanced sequence, after reset), end(name) raises
\* Scope-Mismatch for every name.
C2_IdleEndEnforcement ==
    [][\A t \in Threads :
          (/\ last'.thread = t
           /\ last'.op = "end"
           /\ Attrs(t).cur_node = None)
          => last'.raised]_vars

C2_Witness ==
    /\ Did(MainThread, "end")
    /\ last.raised
    /\ Attrs(MainThread).cur_node = None
    /\ Roots(MainThread) # <<>>
    /\ Balanced(MainThread)

\* C3: an end(name) that raises leaves the thread's state as it was: the active
\* node, the root mapping and every node (children, records, call count) are
\* unchanged, and an end with the active node's own name then succeeds.
C3_FailedEndChangesNothing ==
    [][\A t \in Threads :
          (last'.thread = t /\ last'.op = "end" /\ last'.raised)
          => /\ nodes' = nodes
             /\ Attrs(t)'.cur_node = Attrs(t).cur_node
             /\ Attrs(t)'.top_nodes = Attrs(t).top_nodes
             /\ Attrs(t)'.cur_node # None =>
                  \A now \in perf_counter(clock') :
                     ~end(local'[threading_local(t)], nodes',
                          nodes'[Attrs(t)'.cur_node].name, now).raised]_vars

C3_Witness ==
    /\ Did(MainThread, "end")
    /\ last.raised
    /\ Attrs(MainThread).cur_node # None
    /\ nodes[Attrs(MainThread).cur_node].parent # None
    /\ \E n \in DOMAIN nodes : nodes[n].ncall >= 1

\* C4: begin(name) looks up or creates the root `name` when idle and the child
\* `name` of the active node otherwise; that node becomes the active node and
\* gains exactly one new open record; no other node's records or call count
\* change.
C4_BeginTransition ==
    [][\A t \in Threads :
          (last'.thread = t /\ last'.op = "begin")
          => LET loc == Attrs(t)
                 name == last'.name
                 old == IF loc.cur_node = None
                        THEN DictGet(loc.top_nodes, name)
                        ELSE DictGet(nodes[loc.cur_node].branch_nodes, name)
                 new == Attrs(t)'.cur_node
                 before == IF old = None THEN <<>> ELSE nodes[old].records
                 count == IF old = None THEN 0 ELSE nodes[old].ncall
             IN  /\ new \in DOMAIN nodes'
                 /\ nodes'[new].name = name
                 /\ nodes'[new].parent = loc.cur_node
                 /\ IF old # None
                    THEN new = old /\ DOMAIN nodes' = DOMAIN nodes
                    ELSE new \notin DOMAIN nodes
                         /\ DOMAIN nodes' = DOMAIN nodes \cup {new}
                 /\ IF loc.cur_node = None
                    THEN /\ DictGet(Attrs(t)'.top_nodes, name) = new
                         /\ old # None => Attrs(t)'.top_nodes = loc.top_nodes
                    ELSE /\ DictGet(nodes'[loc.cur_node].branch_nodes, name) = new
                         /\ Attrs(t)'.top_nodes = loc.top_nodes
                 /\ nodes'[new].records = Append(before, nodes'[new].records[Len(before) + 1])
                 /\ nodes'[new].records[Len(before) + 1].end = NoEnd
                 /\ nodes'[new].ncall = count
                 /\ \A i \in DOMAIN nodes \ {new} :
                       /\ nodes'[i].records = nodes[i].records
                       /\ nodes'[i].ncall = nodes[i].ncall]_vars

C4_Witness ==
    /\ Did(MainThread, "begin")
    /\ LET n == Attrs(MainThread).cur_node IN
       /\ nodes[n].parent # None
       /\ Len(nodes[n].records) = 2
       /\ nodes[n].ncall = 1

\* C5: a successful end(name) closes the active node's single open record,
\* adds exactly one to its call count and makes its parent the active node, or
\* idle when the closed node is a root; no other node is modified.
C5_EndTransition ==
    [][\A t \in Threads :
          (last'.thread = t /\ last'.op = "end" /\ ~last'.raised)
          => LET cur == Attrs(t).cur_node
                 k == nodes[cur].ncall
             IN  /\ cur # None
                 /\ Len(nodes[cur].records) = k + 1
                 /\ nodes[cur].records[k + 1].end = NoEnd
                 /\ nodes'[cur].ncall = k + 1
                 /\ Len(nodes'[cur].records) = k + 1
                 /\ nodes'[cur].records[k + 1].begin = nodes[cur].records[k + 1].begin
                 /\ nodes'[cur].records[k + 1].end # NoEnd
                 /\ SubSeq(nodes'[cur].records, 1, k) = SubSeq(nodes[cur].records, 1, k)
                 /\ Attrs(t)'.cur_node =
                       IF cur \in DictValues(Attrs(t).top_nodes)
                       THEN None ELSE nodes[cur].parent
                 /\ Attrs(t)'.top_nodes = Attrs(t).top_nodes
                 /\ DOMAIN nodes' = DOMAIN nodes
                 /\ \A i \in DOMAIN nodes \ {cur} : nodes'[i] = nodes[i]]_vars

C5_Witness ==
    /\ Did(MainThread, "end")
    /\ ~last.raised
    /\ Attrs(MainThread).cur_node # None
    /\ \E n \in DOMAIN nodes :
          /\ nodes[n].parent = Attrs(MainThread).cur_node
          /\ nodes[n].name = last.name
          /\ nodes[n].ncall = 2

\* C6: nesting invariant, counts: after a balanced LIFO sequence of begin/end
\* calls since the last reset, each node's call count is the number of times
\* the scope with exactly its name-path was closed, and every closed name-path
\* has its node.
C6_CountsMatchClosedPaths ==
    \A t \in Threads :
        Balanced(t) =>
            /\ \A n \in Tree(t) :
                  nodes[n].ncall = CopiesIn(PathOf(nodes, n), hist[t].closed)
            /\ \A p \in BagToSet(hist[t].closed) :
                  \E n \in Tree(t) : PathOf(nodes, n) = p

C6_Witness ==
    /\ Did(MainThread, "end")
    /\ Balanced(MainThread)
    /\ \E n, m \in Tree(MainThread) :
          /\ nodes[n].parent = None
          /\ nodes[m].parent = n
          /\ nodes[n].ncall = 1
          /\ nodes[m].ncall = 2

\* C7: nesting invariant, depth: after a balanced LIFO sequence of begin/end
\* calls since the last reset, the number of nodes on the longest root-to-leaf
\* path of the thread's tree is the largest number of scopes that were open at
\* once.
C7_DepthIsMaxNesting ==
    \A t \in Threads :
        Balanced(t) => TreeDepth(nodes, Roots(t)) = hist[t].maxOpen

C7_Witness ==
    /\ Did(MainThread, "end")
    /\ Balanced(MainThread)
    /\ TreeDepth(nodes, Roots(MainThread)) = 2
    /\ Len(Roots(MainThread)) = 2

\* C8: one node per name-path: no two nodes of a thread have the same name
\* under the same parent (or among the roots); a name-path closed k times has
\* exactly one node, whose call count is k; the same name under another parent
\* is another node.
C8_OneNodePerNamePath ==
    \A t \in Threads :
        /\ \A n, m \in NodesOf(t) :
              (nodes[n].name = nodes[m].name /\ nodes[n].parent = nodes[m].parent)
              => n = m
        /\ \A p \in BagToSet(hist[t].closed) :
              \E n \in NodesOf(t) :
                 /\ {m \in NodesOf(t) : PathOf(nodes, m) = p} = {n}
                 /\ nodes[n].ncall = CopiesIn(p, hist[t].closed)
        /\ \A n, m \in NodesOf(t) :
              (nodes[n].name = nodes[m].name /\ nodes[n].parent # nodes[m].parent)
              => n # m /\ PathOf(nodes, n) # PathOf(nodes, m)

C8_Witness ==
    \E n, m \in NodesOf(MainThread) :
        /\ nodes[n].name = nodes[m].name
        /\ nodes[m].parent = n
        /\ nodes[n].ncall = 2
        /\ nodes[m].ncall = 1

\* what the claim concludes of a profile block that thread t has just left:
\* the active node is the node that was active before entry, and the scope's
\* node has one more closed record than at entry
GuardRestored(t) ==
    LET f == last.frame IN
    /\ Attrs(t).cur_node = f.before
    /\ f.node \in DOMAIN nodes
    /\ nodes[f.node].name = f.name
    /\ nodes[f.node].ncall = f.ncall + 1
    /\ ~has_open_record(nodes[f.node])

\* C9 as stated: if the body's own begin/end calls are balanced, then after the
\* block is left, by normal return or by a propagated exception, the active
\* node is the one before entry and the scope's node has one more closed
\* record.
C9_AsStated ==
    \A t \in Threads :
        (Did(t, "profile_exit") /\ BodyBalanced(last.frame)) => GuardRestored(t)

\* C9 amended: profile(name) calls begin(name) on entry and end(name) on every
\* exit path; if the body's own begin/end calls are balanced and the body does
\* not call reset, then after the block is left, by normal return or by a
\* propagated exception, end(name) has not raised, the active node is the one
\* before entry and the scope's node has one more closed record.
C9_ScopedProfileGuard ==
    \A t \in Threads :
        (Did(t, "profile_exit") /\ BodyBalanced(last.frame) /\ ~last.frame.reset)
        => ~last.raised /\ GuardRestored(t)

C9_Witness ==
    /\ Did(MainThread, "profile_exit")
    /\ BodyBalanced(last.frame)
    /\ ~last.frame.reset
    /\ last.exc
    /\ GuardRestored(MainThread)
    /\ Cardinality(DOMAIN nodes) = 2

\* what thread t can see of a heap through its attributes: the name-path of
\* the active node, the root names in order, and every node of its tree with
\* its name-path, records, call count and child names in order
View(loc, h) ==
    [active |-> IF loc.cur_node = None THEN <<>> ELSE PathOf(h, loc.cur_node),
     roots |-> [i \in DOMAIN loc.top_nodes |-> loc.top_nodes[i][1]],
     tree |-> {[path |-> PathOf(h, n),
                records |-> h[n].records,
                ncall |-> h[n].ncall,
                branches |-> [i \in DOMAIN h[n].branch_nodes |-> h[n].branch_nodes[i][1]]]
               : n \in Owned(h, loc.top_nodes)}]

\* C10: thread isolation: under every interleaving of begin / end / reset /
\* summarize calls of several threads, identical names included, what each
\* thread holds (root mapping, active node, records, call counts) is what its
\* own calls produce when run alone; no node belongs to two threads; a thread
\* that has made no call has an empty root mapping and an idle active node.
C10_ThreadIsolation ==
    /\ \A t \in Threads :
          View(Attrs(t), nodes) = View(initialize_thread_state(solo[t].local), solo[t].heap)
    /\ \A t, u \in Threads : t # u => Tree(t) \cap Tree(u) = {}
    /\ \A t \in Threads :
          ~local[threading_local(t)].initialized
          => Attrs(t).cur_node = None /\ Attrs(t).top_nodes = <<>>

C10_Witness ==
    \E t, u \in Threads :
        /\ t # u
        /\ last.thread = u
        /\ \E n \in Tree(t), m \in Tree(u) :
              /\ n # m
              /\ nodes[n].name = nodes[m].name
              /\ nodes[n].parent = None /\ nodes[m].parent = None
              /\ has_open_record(nodes[n])
              /\ nodes[m].ncall = 1

\* C11: reset completeness: in the state a reset() leaves, whatever preceded
\* it (open scopes included), the calling thread's root mapping is empty and
\* its active node is idle; a begin(n)/end(n) pair made next yields one root
\* n, a new node with call count 1, a single closed record and no children.
C11_ResetCompleteness ==
    \A t \in Threads :
        Did(t, "reset")
        => /\ Roots(t) = <<>>
           /\ Attrs(t).top_nodes = <<>>
           /\ Attrs(t).cur_node = None
           /\ \A name \in Names, b \in perf_counter(clock) :
                 LET r1 == begin(local[threading_local(t)], nodes, name, b) IN
                 \A e \in perf_counter(b) :
                    LET r2 == end(r1.local, r1.heap, name, e)
                        root == DictGet(r2.local.top_nodes, name)
                    IN  /\ ~r2.raised
                        /\ r2.local.cur_node = None
                        /\ DictKeys(r2.local.top_nodes) = {name}
                        /\ Owned(r2.heap, r2.local.top_nodes) = {root}
                        /\ root \notin DOMAIN nodes
                        /\ r2.heap[root].name = name
                        /\ r2.heap[root].ncall = 1
                        /\ r2.heap[root].records = <<[begin |-> b, end |-> e]>>
                        /\ r2.heap[root].branch_nodes = <<>>

\* a reset made inside a profile block whose scope was still open, then a
\* begin/end pair of the same name: the root is new and holds that pair only
C11_Witness ==
    /\ Did(MainThread, "end")
    /\ ~last.raised
    /\ frames[MainThread] # <<>>
    /\ frames[MainThread][1].reset
    /\ frames[MainThread][1].name = last.name
    /\ Attrs(MainThread).cur_node = None
    /\ DictKeys(Roots(MainThread)) = {last.name}
    /\ LET root == DictGet(Roots(MainThread), last.name) IN
       /\ nodes[root].ncall = 1
       /\ Len(nodes[root].records) = 1
       /\ nodes[root].branch_nodes = <<>>

\* the calls the enable flag gates
Gated == {"begin", "end", "profile_enter", "profile_exit"}

\* C12: disabled-mode no-op: while the global enable flag is off, every begin,
\* end and scoped-profile call (entry and exit) leaves the thread's root
\* mapping, active node and all nodes unchanged, allocates no node, and does
\* not raise, an end(name) issued while idle included.
C12_DisabledNoOp ==
    [][\A t \in Threads :
          (~enabled /\ last'.thread = t /\ last'.op \in Gated)
          => /\ nodes' = nodes
             /\ local' = local
             /\ clock' = clock
             /\ ~last'.raised
             /\ pending'[t] = "none"]_vars

\* with the flag off from the start of the tree: a profile block is entered
\* and an end is issued while idle; nothing was allocated, nothing raised
C12_Witness ==
    /\ ~enabled
    /\ Did(MainThread, "end")
    /\ ~last.raised
    /\ frames[MainThread] # <<>>
    /\ pending[MainThread] = "none"
    /\ Attrs(MainThread).cur_node = None
    /\ Roots(MainThread) = <<>>
    /\ nodes = <<>>

\* the durations of the records of a node that have an end, in order
ClosedDurations(node) ==
    LET done == SelectSeq(node.records, LAMBDA r : r.end # NoEnd)
    IN  [i \in DOMAIN done |-> done[i].end - done[i].begin]

\* st holds the total, minimum, maximum, mean and population variance of the
\* durations D, and zeros when there is none
StatsOfDurations(st, D) ==
    LET k == Len(D)
        T == SeqSum(D)
        Q == SeqSum([i \in DOMAIN D |-> D[i] * D[i]])
    IN  /\ st.total = T
        /\ IF k = 0 THEN st.min_ = 0 /\ st.max_ = 0
           ELSE /\ \E i \in DOMAIN D : D[i] = st.min_
                /\ \A i \in DOMAIN D : D[i] >= st.min_
                /\ \E i \in DOMAIN D : D[i] = st.max_
                /\ \A i \in DOMAIN D : D[i] <= st.max_
        /\ st.avg.den > 0
        /\ st.avg.num * Max(k, 1) = T * st.avg.den
        /\ st.var_.den > 0
        /\ st.var_.num * Max(k, 1) * Max(k, 1) = st.var_.den * (k * Q - T * T)

StatsOfClosed(st, node) == StatsOfDurations(st, ClosedDurations(node))

\* what the query accessors of a node return
Reported(node) ==
    TimerStats(total_time(node), min_time(node), max_time(node), avg_time(node),
               var_time(node))

HasUnfinished(node) == \E i \in DOMAIN node.records : node.records[i].end = NoEnd

C14_AsStated ==
    \A t \in Threads : \A n \in Tree(t) :
        StatsOfClosed(Reported(nodes[n]), nodes[n])

\* C15: stats pass postcondition: after build_stats_recursive(root) returns,
\* every node of root's subtree, root included, has cached stats equal to
\* {total, min, max, avg, variance} of its own closed records and is marked
\* preprocessed; records and call counts are as before. The pass over all
\* roots leaves every node of the thread's tree so.
C15_StatsPassPostcondition ==
    [][\A t \in Threads :
          (last'.thread = t /\ last'.op \in {"build_stats", "summary"})
          => LET passed == IF last'.op = "summary" THEN Tree(t)'
                           ELSE Subtree(nodes', DictGet(Attrs(t).top_nodes, last'.name))
             IN  /\ DOMAIN nodes' = DOMAIN nodes
                 /\ \A n \in passed :
                       /\ nodes'[n].stats # NoStats
                       /\ StatsOfClosed(nodes'[n].stats, nodes'[n])
                       /\ nodes'[n].preprocessed
                 /\ \A n \in DOMAIN nodes :
                       /\ nodes'[n].records = nodes[n].records
                       /\ nodes'[n].ncall = nodes[n].ncall
                       /\ nodes'[n].branch_nodes = nodes[n].branch_nodes]_vars

\* a pass over a root with a child: both are stamped, the child's total is 1
C15_Witness ==
    /\ Did(MainThread, "build_stats")
    /\ \E n, m \in Tree(MainThread) :
          /\ nodes[n].parent = None
          /\ nodes[n].name = last.name
          /\ nodes[m].parent = n
          /\ nodes[n].preprocessed /\ nodes[m].preprocessed
          /\ nodes[m].stats.total = 1
          /\ nodes[n].stats.total = 1

\* every open scope is closed by end(), innermost first, and none is left
RECURSIVE ClosesInLifoOrder(_, _, _)
ClosesInLifoOrder(loc, h, now) ==
    IF loc.cur_node = None
    THEN \A n \in Owned(h, loc.top_nodes) : ~HasUnfinished(h[n])
    ELSE LET r == end(loc, h, h[loc.cur_node].name, now)
         IN  ~r.raised /\ ClosesInLifoOrder(r.local, r.heap, now)

C17_OverallTimeClosedOnly ==
    \A t \in Threads :
        overall_time(Attrs(t), nodes) =
            SeqSum([i \in DOMAIN Roots(t) |->
                       SeqSum(ClosedDurations(nodes[Roots(t)[i][2]]))])

\* a root closed after a duration of 1 and a second root that is open
C17_Witness ==
    /\ overall_time(Attrs(MainThread), nodes) = 1
    /\ Len(Roots(MainThread)) = 2
    /\ \E n \in DictValues(Roots(MainThread)) :
          HasUnfinished(nodes[n]) /\ nodes[n].ncall = 0

Inferred == infer # NoInference /\ infer.property # NoProperty

\* C19: automatic unit selection: with requested unit auto the display unit
\* is seconds iff worst >= 1.0, milliseconds iff 0.001 <= worst < 1.0 and
\* microseconds iff worst < 0.001 (0 included), and the scale is 1, 1_000 and
\* 1_000_000 respectively.
C19_AutomaticUnit ==
    (Inferred /\ infer.unit = "auto")
    => LET w == infer.worst_time
           prop == infer.property
           atLeastSecond == w.num >= w.den
           atLeastMilli == w.num * 1000 >= w.den
       IN  /\ prop.unit = "s" <=> atLeastSecond
           /\ prop.unit = "ms" <=> (atLeastMilli /\ ~atLeastSecond)
           /\ prop.unit = "us" <=> ~atLeastMilli
           /\ prop.unit = "s" => prop.scale = 1
           /\ prop.unit = "ms" => prop.scale = 1000
           /\ prop.unit = "us" => prop.scale = 1000000

\* a worst time of exactly one second is shown in seconds
C19_Witness ==
    /\ Inferred
    /\ infer.unit = "auto"
    /\ infer.worst_time = Ratio(1, 1)
    /\ infer.property.unit = "s"
    /\ infer.property.scale = 1

\* d is the number of integer digits of v (0 when v is 0)
IsDigits(d, v) ==
    IF v = 0 THEN d = 0
    ELSE d >= 1 /\ (v \div Pow10(d - 1)) \in 1..9

\* C20: automatic precision selection: with requested precision auto,
\* microseconds yields precision 1; for seconds and milliseconds, with d the
\* number of integer digits of the truncated value worst * scale (0 when it
\* truncates to 0), the precision is 0 if d >= 6, 6 if d <= 0 and 6 - d
\* otherwise, so that d + precision = 6 whenever 1 <= d <= 5.
C20_AutomaticPrecision ==
    (Inferred /\ infer.precision.auto)
    => LET w == infer.worst_time
           prop == infer.property
           v == (w.num * prop.scale) \div w.den
       IN  IF prop.unit = "us" THEN prop.precision = 1
           ELSE \E d \in 0..10 :
                   /\ IsDigits(d, v)
                   /\ d >= 6 => prop.precision = 0
                   /\ d <= 0 => prop.precision = 6
                   /\ (1 <= d /\ d <= 5) => prop.precision = 6 - d
                   /\ (1 <= d /\ d <= 5) => d + prop.precision = 6

\* 0.9 s shown in milliseconds: 900 has 3 digits, the precision is 3
C20_Witness ==
    /\ Inferred
    /\ infer.precision.auto
    /\ infer.unit = "auto"
    /\ infer.worst_time = Ratio(9, 10)
    /\ infer.property.unit = "ms"
    /\ infer.property.precision = 3

\* C21: explicit requests bypass inference: for every worst-case duration an
\* explicitly requested unit is returned unchanged, with its fixed scale, and an
\* explicitly requested integer precision is returned unchanged, independently
\* of each other and of the duration.
C21_ExplicitBypass ==
    Inferred
    => LET prop == infer.property IN
       /\ infer.unit # "auto"
          => /\ prop.unit = infer.unit
             /\ prop.scale = (CASE infer.unit = "s" -> 1
                                [] infer.unit = "ms" -> 1000
                                [] infer.unit = "us" -> 1000000)
       /\ ~infer.precision.auto => prop.precision = infer.precision.value

\* 1200 s asked for in microseconds with 3 decimals: neither the unit the
\* duration would have chosen (s) nor the precision of microseconds (1)
C21_Witness ==
    /\ Inferred
    /\ infer.worst_time = Ratio(1200, 1)
    /\ infer.unit = "us"
    /\ infer.precision = IntPrecision(3)
    /\ infer.property = TimeProperty("us", 1000000, 3)

\* the scope of a call: the name given to the decorator, else the function's
\* own identifier
ScopeOf(f) == IF f.custom # NoName THEN f.custom ELSE f.func

\* thread t has just called, or returned from, the function of frame f
Calling(t) == frames[t][Len(frames[t])]

\* what begin(s) from the caller's position leaves: the node s under the node
\* that was active (a root when idle), active, with an open record
BegunAtCaller(t, f) ==
    LET loc == Attrs(t) IN
    /\ f.node \in DOMAIN nodes
    /\ loc.cur_node = f.node
    /\ nodes[f.node].name = ScopeOf(f)
    /\ nodes[f.node].parent = f.before
    /\ has_open_record(nodes[f.node])
    /\ IF f.before = None
       THEN /\ nodes[f.node].level = 0
            /\ DictGet(loc.top_nodes, ScopeOf(f)) = f.node
       ELSE /\ nodes[f.node].level = nodes[f.before].level + 1
            /\ DictGet(nodes[f.before].branch_nodes, ScopeOf(f)) = f.node

\* C22 as stated: every call of a function wrapped while profiling was enabled
\* adds exactly one closed record to the node s.
C22_AsStated ==
    \A t \in Threads :
        (Did(t, "return") /\ last.frame.wrapped)
        => /\ ~last.raised
           /\ GuardRestored(t)
           /\ nodes[last.frame.node].name = ScopeOf(last.frame)

\* C22 amended: a call, made while profiling is enabled, of a function wrapped
\* while profiling was enabled performs begin(s) before the body at the caller's
\* current nesting position and end(s) after it, s being the name supplied or,
\* when none is supplied, the function's own identifier; if profiling stays
\* enabled during the call, the body's own begin/end calls are balanced and the
\* body does not call reset, the call adds exactly one closed record to the
\* node s and restores the caller's position; with a custom name the wrapper
\* never creates a node under the function's identifier.
C22_FunctionWrapping ==
    /\ [](\A t \in Threads :
            /\ (Did(t, "call") /\ Calling(t).wrapped /\ Calling(t).on)
               => BegunAtCaller(t, Calling(t))
            /\ (Did(t, "return") /\ last.frame.wrapped /\ last.frame.on
                   /\ BodyBalanced(last.frame) /\ ~last.frame.reset)
               => /\ ~last.raised
                  /\ GuardRestored(t)
                  /\ nodes[last.frame.node].name = ScopeOf(last.frame))
    /\ [][\A t \in Threads :
            LET f == IF last'.op = "call" THEN frames'[t][Len(frames'[t])]
                     ELSE last'.frame
            IN  (last'.thread = t /\ last'.op \in {"call", "return"}
                   /\ f.wrapped /\ f.custom # NoName /\ f.custom # f.func)
                => {n \in DOMAIN nodes' : nodes'[n].name = f.func}
                      \subseteq {n \in DOMAIN nodes : nodes[n].name = f.func}]_vars

\* f, decorated with the name A, is called inside the scope A and has returned:
\* the record went to A/A, no node is named f
C22_Witness ==
    LET f == last.frame IN
    /\ Did(MainThread, "return")
    /\ f.wrapped /\ f.on /\ BodyBalanced(f) /\ ~f.reset
    /\ f.custom = "A"
    /\ f.before # None
    /\ GuardRestored(MainThread)
    /\ PathOf(nodes, f.node) = <<"A", "A">>
    /\ nodes[f.node].ncall = 1
    /\ \A n \in DOMAIN nodes : nodes[n].name # f.func

\* C23: function wrapping while disabled is a passthrough: when the global
\* enable flag is off at wrapping time the decorator returns the original
\* callable, and calling it, whatever the flag is by then, returns the
\* function's result and leaves the thread's root mapping, active node and
\* nodes as they were.
C23_DisabledPassthrough ==
    /\ [](\A t \in Threads :
            (Did(t, "profile_func") /\ ~enabled)
            => callables[last.name] =
                  [func |-> last.name, name |-> NoName, wrapped |-> FALSE])
    /\ [][\A t \in Threads :
            LET f == IF last'.op = "call" THEN frames'[t][Len(frames'[t])]
                     ELSE last'.frame
            IN  (last'.thread = t /\ last'.op \in {"call", "return"} /\ ~f.wrapped)
                => /\ nodes' = nodes
                   /\ local' = local
                   /\ clock' = clock
                   /\ ~last'.raised
                   /\ (last'.op = "return" /\ ~last'.exc)
                      => last'.result = "expected_value"]_vars

\* f was defined with the flag off; the flag is on by the time f is called and
\* returns: there is still no node
C23_Witness ==
    /\ Did(MainThread, "return")
    /\ ~last.frame.wrapped
    /\ enabled
    /\ last.result = "expected_value"
    /\ Roots(MainThread) = <<>>
    /\ nodes = <<>>

\* where a node is in its tree: for each ancestor from the root down, and for
\* the node itself, its place among the branches of its parent
RECURSIVE Trail(_, _)
Trail(h, n) ==
    IF h[n].parent = None THEN <<>>
    ELSE LET branches == h[h[n].parent].branch_nodes
             place == CHOOSE i \in DOMAIN branches : branches[i][2] = n
         IN  Append(Trail(h, h[n].parent), place)

\* depth-first pre-order: a node comes before its descendants, and the subtree
\* of a branch before the subtrees of the branches inserted after it
PreOrder(p, q) ==
    \/ Len(p) < Len(q) /\ SubSeq(q, 1, Len(p)) = p
    \/ \E i \in DOMAIN p \cap DOMAIN q :
          /\ SubSeq(p, 1, i - 1) = SubSeq(q, 1, i - 1)
          /\ p[i] < q[i]

\* C24: get_open_nodes on a node returns exactly the nodes of its subtree,
\* itself included, that have an open record (ncall < number of records), each
\* once, in depth-first pre-order with children visited in insertion order;
\* nodes whose records are all closed never appear.
C24_OpenNodesPreOrder ==
    open_nodes # NoReport
    => LET list == open_nodes.list
           self == open_nodes.self
       IN  /\ {list[i] : i \in DOMAIN list}
                 = {n \in Subtree(nodes, self) :
                       nodes[n].ncall < Len(nodes[n].records)}
           /\ \A i, j \in DOMAIN list :
                 i < j => PreOrder(Trail(nodes, list[i]), Trail(nodes, list[j]))

\* a closed root whose first branch is open and has an open branch of its own,
\* and whose second branch is open: first branch, its branch, second branch
C24_Witness ==
    LET list == open_nodes.list
        self == open_nodes.self
    IN  /\ open_nodes # NoReport
        /\ Len(list) = Cardinality(DOMAIN nodes) - 1
        /\ Len(nodes[self].branch_nodes) > 1
        /\ nodes[self].ncall = Len(nodes[self].records)
        /\ nodes[self].branch_nodes[1][2] = list[1]
        /\ nodes[list[1]].branch_nodes # <<>>
        /\ nodes[list[1]].branch_nodes[1][2] = list[2]
        /\ nodes[self].branch_nodes[2][2] = list[Len(list)]

\* C25: record-count invariant: in every state reachable through begin / end /
\* reset, recursive scopes that reuse the name of an enclosing scope included,
\* every node has ncall <= len(records) <= ncall + 1: ncall is the number of
\* closed records, the closed records come first, and at most one record per
\* node is open.
C25_RecordCount ==
    \A n \in DOMAIN nodes :
        LET node == nodes[n] IN
        /\ node.ncall <= Len(node.records)
        /\ Len(node.records) <= node.ncall + 1
        /\ node.ncall = Cardinality({i \in DOMAIN node.records :
                                        node.records[i].end # NoEnd})
        /\ \A i \in DOMAIN node.records : node.records[i].end # NoEnd <=> i <= node.ncall

\* a scope opened again inside itself, after having been closed once: the
\* root has one closed and one open record, its branch of the same name is open
C25_Witness ==
    \E n, m \in Tree(MainThread) :
        /\ nodes[m].parent = n
        /\ nodes[m].name = nodes[n].name
        /\ nodes[n].ncall = 1 /\ Len(nodes[n].records) = 2
        /\ nodes[m].ncall = 0 /\ Len(nodes[m].records) = 1

\* the nodes above n: its parent, the parent of its parent, ...
RECURSIVE Ancestors(_, _)
Ancestors(h, n) ==
    IF h[n].parent = None THEN {}
    ELSE {h[n].parent} \cup Ancestors(h, h[n].parent)

\* C26: root invariant: for every node reachable from a thread's root mapping,
\* is_root holds iff its level is 0 iff it has no parent (iff the root mapping
\* holds it); every branch has the level of the node it was created under plus
\* one and that node as its parent, and a node's level is the number of its
\* ancestors.
C26_RootInvariant ==
    \A t \in Threads :
        \A n \in Tree(t) :
            /\ nodes[n].is_root <=> nodes[n].level = 0
            /\ nodes[n].level = 0 <=> nodes[n].parent = None
            /\ nodes[n].is_root <=> n \in DictValues(Roots(t))
            /\ nodes[n].level = Cardinality(Ancestors(nodes, n))
            /\ \A i \in DOMAIN nodes[n].branch_nodes :
                  LET b == nodes[n].branch_nodes[i][2] IN
                  /\ nodes[b].parent = n
                  /\ nodes[b].level = nodes[n].level + 1
                  /\ nodes[b].name = nodes[n].branch_nodes[i][1]

\* a root, its branch and the branch of that branch, at levels 0, 1 and 2
C26_Witness ==
    \E n \in Tree(MainThread) :
        /\ nodes[n].level = 2
        /\ ~nodes[n].is_root
        /\ nodes[nodes[n].parent].level = 1
        /\ ~nodes[nodes[n].parent].is_root
        /\ nodes[nodes[nodes[n].parent].parent].is_root

\* C27 as stated: parent dominates child: with a non-decreasing clock,
\* whenever a node has no open record its total_time is greater than or equal
\* to the total_time of each of its branches.
C27_AsStated ==
    \A t \in Threads :
        \A n \in Tree(t) :
            ~has_open_record(nodes[n])
            => \A b \in DictValues(nodes[n].branch_nodes) :
                  total_time(nodes[n]) >= total_time(nodes[b])


\* the mapping thread t got from get_thread_results(), as it reads now
Exported(t) ==
    IF results[t].bound THEN Attrs(t).top_nodes ELSE results[t].top_nodes

Discarded(t) ==
    {frames[t][i].name : i \in {j \in DOMAIN frames[t] : frames[t][j].reset}}

\* C29: reset() while scopes are open discards them: afterwards no node is
\* reported open, end(name) for each discarded scope raises Scope-Mismatch and
\* changes nothing, and begin(name) makes a new root at level 0, not a child of
\* a discarded node; the exit of a profile block whose scope a reset discarded
\* raises Scope-Mismatch.
C29_ResetDiscardsOpen ==
    /\ [](\A t \in Threads :
            (Did(t, "reset") /\ Discarded(t) # {})
            => LET loc == local[threading_local(t)] IN
               /\ unclosed(loc, nodes) = <<>>
               /\ \A name \in Discarded(t), now \in perf_counter(clock) :
                      LET r == end(loc, nodes, name, now) IN
                      /\ r.raised
                      /\ r.heap = nodes
                      /\ r.local.cur_node = None
                      /\ r.local.top_nodes = <<>>
               /\ \A name \in Names, now \in perf_counter(clock) :
                      LET r == begin(loc, nodes, name, now)
                          new == r.local.cur_node
                      IN  /\ new \notin DOMAIN nodes
                          /\ r.local.top_nodes = <<<<name, new>>>>
                          /\ Subtree(r.heap, new) = {new}
                          /\ r.heap[new].level = 0
                          /\ r.heap[new].is_root
                          /\ r.heap[new].parent = None
                          /\ r.heap[new].name = name
                          /\ r.heap[new].ncall = 0
                          /\ Len(r.heap[new].records) = 1)
    /\ [][\A t \in Threads :
             (/\ last'.thread = t
              /\ last'.op = "profile_exit"
              /\ last'.frame.reset
              /\ BodyBalanced(last'.frame))
             => /\ last'.raised
                /\ last'.error = ScopeMismatch
                /\ nodes' = nodes]_vars

\* a reset made inside a profile block nested in an open scope: both scopes
\* are discarded, and nothing is left open
C29_Witness ==
    /\ Did(MainThread, "reset")
    /\ Discarded(MainThread) # {}
    /\ frames[MainThread][1].before = Gone
    /\ Attrs(MainThread).cur_node = None
    /\ unclosed(Attrs(MainThread), nodes) = <<>>


\* C30: end_record() on a node with no open record (ncall = len(records))
\* does not change the node: ncall is not incremented and no record is
\* created or modified; the call raises IndexError. With an open record the
\* call closes it and counts it.
C30_EndRecordNoOpenRecord ==
    [][\A self \in DOMAIN nodes :
          (last'.op = "end_record" /\ last'.name = nodes[self].name)
          => IF nodes[self].ncall = Len(nodes[self].records)
             THEN /\ nodes' = nodes
                  /\ clock' = clock
                  /\ last'.raised
                  /\ last'.error = IndexError
             ELSE /\ ~last'.raised
                  /\ nodes'[self].ncall = nodes[self].ncall + 1
                  /\ Len(nodes'[self].records) = Len(nodes[self].records)]_vars

\* end_record() raised on a node whose records are all closed
C30_Witness ==
    /\ last.op = "end_record"
    /\ last.raised
    /\ last.error = IndexError
    /\ \E self \in DOMAIN nodes :
           /\ nodes[self].name = last.name
           /\ nodes[self].ncall = Len(nodes[self].records)
           /\ nodes[self].ncall >= 1


\* the node thread t's last begin made active, on which it called begin_record
Begun(t) == local[threading_local(t)].cur_node

\* what begin_record does to the records of node n in a step
OneRecordAppended(n) ==
    /\ nodes'[n].ncall = (IF n \in DOMAIN nodes THEN nodes[n].ncall ELSE 0)
    /\ LET before == IF n \in DOMAIN nodes THEN nodes[n].records ELSE <<>> IN
       /\ Len(nodes'[n].records) = Len(before) + 1
       /\ SubSeq(nodes'[n].records, 1, Len(before)) = before
       /\ nodes'[n].records[Len(before) + 1].end = NoEnd

\* C31 as stated: begin_record() appends exactly one open record to the node
\* and marks the node's stats as not valid (preprocessed = false), leaving
\* ncall and all earlier records unchanged.
C31_AsStated ==
    [][\A t \in Threads :
          (last'.thread = t /\ last'.op = "begin")
          => /\ OneRecordAppended(Begun(t)')
             /\ ~nodes'[Begun(t)'].preprocessed]_vars


\* C32: no ancestor auto-invalidation: an end_record on a node clears the
\* stamp of that node only and keeps its cached stats; every other node of the
\* tree, its ancestors and siblings among them, keeps its stamp and its
\* cached stats as the last pass left them.
C32_NoAncestorInvalidation ==
    [][\A t \in Threads :
          (last'.thread = t /\ last'.op = "end" /\ ~last'.raised)
          => LET closed == Attrs(t).cur_node IN
             /\ ~nodes'[closed].preprocessed
             /\ nodes'[closed].stats = nodes[closed].stats
             /\ \A n \in DOMAIN nodes \ {closed} : nodes'[n] = nodes[n]]_vars

\* a record closed on a branch after a pass over the tree: the branch lost
\* its stamp, its parent kept it, and both keep the stats of the pass
C32_Witness ==
    /\ Did(MainThread, "end")
    /\ ~last.raised
    /\ Attrs(MainThread).cur_node # None
    /\ LET parent == Attrs(MainThread).cur_node
           closed == DictGet(nodes[parent].branch_nodes, last.name)
       IN  /\ nodes[parent].preprocessed
           /\ nodes[parent].stats # NoStats
           /\ ~nodes[closed].preprocessed
           /\ nodes[closed].stats # NoStats
           /\ nodes[closed].ncall = 1


\* C33: closed records are immutable: a record that has an end keeps its
\* begin and its end through every later begin, end, stats pass, render and
\* summary, as long as its node lives; the only record a step changes is the
\* one at index ncall of the node an end closes, which is open, and the step
\* writes its end only.
C33_ClosedRecordsImmutable ==
    [][\A n \in DOMAIN nodes \cap DOMAIN nodes' :
          /\ Len(nodes'[n].records) >= Len(nodes[n].records)
          /\ \A i \in DOMAIN nodes[n].records :
                LET old == nodes[n].records[i]
                    new == nodes'[n].records[i]
                IN  /\ old.end # NoEnd => new = old
                    /\ new # old
                       => /\ last'.op = "end"
                          /\ ~last'.raised
                          /\ i = nodes[n].ncall + 1
                          /\ new.begin = old.begin
                          /\ new.end # NoEnd]_vars

\* a node with two closed records and a pass made between the two
C33_Witness ==
    /\ Did(MainThread, "end")
    /\ ~last.raised
    /\ \E n \in Tree(MainThread) :
          /\ nodes[n].name = last.name
          /\ nodes[n].ncall = 2
          /\ nodes[n].stats # NoStats
          /\ nodes[n].records[1].end # NoEnd
          /\ nodes[n].records[2].end # NoEnd
          /\ nodes[n].stats.total = elapsed(nodes[n].records[1])


\* v is the population variance of the durations D: with k = Len(D), T their
\* sum and Q the sum of their squares, v = (k*Q - T*T) / (k*k)
PopulationVariance(v, D) ==
    LET k == Len(D)
        T == SeqSum(D)
        Q == SeqSum([i \in DOMAIN D |-> D[i] * D[i]])
    IN  v.den > 0 /\ v.num * k * k = (k * Q - T * T) * v.den

Unstamped(node) == [node EXCEPT !.stats = NoStats, !.preprocessed = FALSE]

\* C35: the stats pass is pure and idempotent: build_stats_recursive changes
\* no node's records, ncall, branches or parent, nor the thread's active node
\* and root mapping, and a second pass right after the first leaves the same
\* cached stats on every node.
C35_StatsPassPureIdempotent ==
    [][\A t \in Threads :
          (last'.thread = t /\ last'.op = "build_stats")
          => LET root == DictGet(Roots(t), last'.name) IN
             /\ DOMAIN nodes' = DOMAIN nodes
             /\ \A n \in DOMAIN nodes : Unstamped(nodes'[n]) = Unstamped(nodes[n])
             /\ \A n \in DOMAIN nodes \ Subtree(nodes, root) : nodes'[n] = nodes[n]
             /\ local' = local
             /\ clock' = clock
             /\ build_stats_recursive(nodes', root) = nodes']_vars

\* a pass over a root that has a closed record of duration 1 and a branch
C35_Witness ==
    /\ Did(MainThread, "build_stats")
    /\ LET root == DictGet(Roots(MainThread), last.name) IN
       /\ nodes[root].ncall = 1
       /\ nodes[root].stats.total = 1
       /\ nodes[root].preprocessed
       /\ \E b \in DictValues(nodes[root].branch_nodes) :
              nodes[b].preprocessed /\ nodes[b].ncall = 1


\* the scopes of thread t's program that were begun with the flag on
BegunWithFlagOn(t) == {i \in DOMAIN prog[t].stack : prog[t].stack[i].on}

Open(t) == {n \in Tree(t) : has_open_record(nodes[n])}

\* C37: open-chain invariant: in every state reachable through begin / end /
\* reset, the nodes of a thread with an open record are exactly its active
\* node and the ancestors of the active node: the active node has an open
\* record, the thread is idle iff none of its nodes has one, and the number
\* of open scopes is the active node's level + 1.
C37_OpenChain ==
    \A t \in Threads :
        LET cur == Attrs(t).cur_node IN
        /\ Open(t) = IF cur = None THEN {} ELSE {cur} \cup Ancestors(nodes, cur)
        /\ cur = None <=> Open(t) = {}
        /\ cur # None
           => /\ cur \in Tree(t)
              /\ has_open_record(nodes[cur])
              /\ Cardinality(Open(t)) = nodes[cur].level + 1

\* two scopes open, the active node at level 1, beside a root that was closed
C37_Witness ==
    LET cur == Attrs(MainThread).cur_node IN
    /\ cur # None
    /\ nodes[cur].level = 1
    /\ Cardinality(Open(MainThread)) = 2
    /\ \E n \in Tree(MainThread) : nodes[n].ncall = 1 /\ ~has_open_record(nodes[n])


\* worst_time * scale of the display property derived, at least 1
ScaledAtLeastOne ==
    RatGE(RatMul(infer.worst_time, Ratio(infer.property.scale, 1)), Ratio(1, 1))

\* C38: auto-precision range: with unit and precision both auto the precision
\* is 1 for microseconds and lies in 0..5 for seconds and milliseconds, since
\* the unit chosen makes worst * scale >= 1; with auto precision, 6 comes out
\* only for an explicit unit s or ms with worst * scale < 1, and then always.
C38_AutoPrecisionRange ==
    (Inferred /\ infer.precision.auto)
    => LET prop == infer.property IN
       /\ prop.precision \in 0..6
       /\ infer.unit = "auto"
          => /\ prop.unit = "us" => prop.precision = 1
             /\ prop.unit \in {"s", "ms"}
                => ScaledAtLeastOne /\ prop.precision \in 0..5
       /\ prop.precision = 6
          <=> (infer.unit \in {"s", "ms"} /\ ~ScaledAtLeastOne)

\* 1 ms with unit and precision auto: milliseconds, worst * scale is exactly
\* 1, one digit, precision 5
C38_Witness ==
    /\ Inferred
    /\ infer.unit = "auto"
    /\ infer.precision = AutoPrecision
    /\ infer.worst_time = Ratio(1, 1000)
    /\ infer.property = TimeProperty("ms", 1000, 5)


\* the scopes the body of the innermost profile block of t has begun and left
\* open, outermost first, when every end of the body closed the scope the body
\* had opened last and the body did not call reset; <<>> otherwise
LeftOpen(t) ==
    IF frames[t] = <<>> THEN <<>>
    ELSE LET f == frames[t][Len(frames[t])] IN
         IF f.ok /\ ~f.reset THEN f.body ELSE <<>>

\* the guard's end(name) raised Scope-Mismatch and closed nothing: the heap and
\* the thread's attributes are as they were, the active node is the scope the
\* body opened last, and that node and the guard's node have an open record
GuardClosedNothing(t) ==
    LET f == frames[t][Len(frames[t])]
        cur == Attrs(t).cur_node
    IN
    /\ last'.raised
    /\ last'.error = ScopeMismatch
    /\ nodes' = nodes
    /\ local' = local
    /\ cur # None
    /\ cur # f.node
    /\ nodes[cur].name = LeftOpen(t)[Len(LeftOpen(t))]
    /\ f.node \in Ancestors(nodes, cur)
    /\ has_open_record(nodes[cur])
    /\ has_open_record(nodes[f.node])

\* C39 as stated: if the body of a profile(name) block opens an inner scope
\* with begin(inner) and leaves the block without closing it, the guard's
\* end(name) on exit raises Scope-Mismatch, and afterwards the inner scope and
\* the guard's scope are still open with the inner node active.
C39_AsStated ==
    [][\A t \in Threads :
          (last'.op = "profile_exit" /\ last'.thread = t /\ LeftOpen(t) # <<>>)
          => GuardClosedNothing(t)]_vars

\* C39 amended: if the body of a profile(name) block does not call reset and
\* leaves the block with scopes of its own open, the innermost of them under a
\* name other than name, the guard's end(name) on exit raises Scope-Mismatch
\* and closes nothing: the innermost scope the body left open is still the
\* active node, and its node and the guard's node still have an open record.
C39_UnbalancedBody ==
    [][\A t \in Threads :
          (/\ last'.op = "profile_exit"
           /\ last'.thread = t
           /\ LeftOpen(t) # <<>>
           /\ ~Matches(LeftOpen(t), frames[t][Len(frames[t])].name))
          => GuardClosedNothing(t)]_vars

C39_Witness ==
    /\ Did(MainThread, "profile_exit")
    /\ last.raised
    /\ last.error = ScopeMismatch
    /\ ~last.exc
    /\ Attrs(MainThread).cur_node # None
    /\ Cardinality(Open(MainThread)) = 2
    /\ \E n \in Open(MainThread) :
          /\ nodes[n].name = last.name
          /\ Attrs(MainThread).cur_node # n
          /\ n \in Ancestors(nodes, Attrs(MainThread).cur_node)

====
